---- MODULE Spec2Model ----
(***************************************************************************)
(* Verification model of the heydwiki portfolio backend: the request       *)
(* validators, the experience / category / blog controllers, the auth      *)
(* gate and token handling, and the terminal error handler.                *)
(*                                                                         *)
(* JavaScript strings are sequences of one-character strings, so that      *)
(* trim, toLowerCase, startsWith, slice, the YYYY-MM pattern and the       *)
(* code-unit ordering of `<` are computed, not assumed.  JavaScript values *)
(* of type `unknown` are tagged records.                                   *)
(***************************************************************************)
EXTENDS Integers, Sequences, FiniteSets, Bags, TLC

VARIABLES
    experiences,   \* Experience table: id -> row or NoRow
    nextExpId,     \* number of Experience ids handed out so far
    expLast,       \* the last experience request handled, with its response
    categories,    \* Category table: id -> row or NoRow
    nextCatId,     \* number of Category ids handed out so far
    blogs,         \* Blog table: id -> row or NoRow
    nextBlogId,    \* number of Blog ids handed out so far
    inflight,      \* bag of requests suspended between two data-store statements
    catLast,       \* the last category / blog request answered, with its response
    now,           \* the clock, in days
    jwtSecret,     \* process.env.JWT_SECRET
    users,         \* User table
    http,          \* the request passing through the express middleware stack
    tagValue,      \* the raw value of a tags / highlights / techTags field
    tagResult,     \* the validator applied to it, and what it returned or threw
    pageQuery,     \* req.query of a list request: page and limit as sent
    pageResult,    \* what parsePagination returned or threw for it
    nodeEnv,       \* process.env.NODE_ENV
    thrown,        \* the errors of two failing requests, as they reach the terminal handler
    responded,     \* the response written for each of the two, once it is
    storageEnv,    \* process.env.SUPABASE_URL and SUPABASE_SERVICE_ROLE_KEY
    uploadReq,     \* an upload request past requireAuth: body.folder and the files sent
    uploadRun,     \* where that request stands, req.files, the links so far, its response
    storageCalls,  \* the files for which storage upload was called, in call order
    bucket,        \* the objects in the storage bucket, in the order they were stored
    projects,      \* Project table: id -> row or NoRow
    crudReq,       \* a get, update or delete request for one row of one resource
    crudRun,       \* where its handler stands, the statements it issued, its response
    proc,          \* the node process: its entry module, its phase, the requests it served
    isolation,     \* the isolation level the data store gives a transaction by default
    listStore,     \* the table a list request reads: its rows and its creation clock
    listReq,       \* a list request: the resource and req.query
    listRun,       \* where its handler stands, what each statement read, its response
    richStore,     \* the rich-text columns of the Project and the Experience row
    richInput,     \* for each of them, the validated input its stored value was written from
    richLast,      \* the last rich-text request handled and its response
    call,          \* one call of an asyncHandler-wrapped controller: its promise, the
                   \* calls of next, the responses written
    deleters       \* concurrent DELETE requests for one row: the resource, and where
                   \* each handler stands

expVars == <<experiences, nextExpId, expLast>>

catVars == <<categories, nextCatId, blogs, nextBlogId, inflight, catLast>>

authVars == <<now, jwtSecret, users, http>>

tagVars == <<tagValue, tagResult>>

pageVars == <<pageQuery, pageResult>>

\* The variables of the subsystems modelled after the tag validators.
errVars == <<nodeEnv, thrown, responded>>

uploadVars == <<storageEnv, uploadReq, uploadRun, storageCalls, bucket>>

\* The variables of the subsystems modelled after the error handler.
crudVars == <<projects, crudReq, crudRun>>

listVars == <<isolation, listStore, listReq, listRun>>

\* The variables of the subsystems modelled after the process.
richVars == <<richStore, richInput, richLast>>

moreVars == <<listVars, richVars, call, deleters>>

laterVars == <<uploadVars, crudVars, proc, moreVars>>

restVars == <<pageVars, errVars, laterVars>>

vars == <<experiences, nextExpId, expLast,
          categories, nextCatId, blogs, nextBlogId, inflight, catLast,
          now, jwtSecret, users, http, tagValue, tagResult,
          pageQuery, pageResult, nodeEnv, thrown, responded,
          storageEnv, uploadReq, uploadRun, storageCalls, bucket,
          projects, crudReq, crudRun, proc,
          isolation, listStore, listReq, listRun, richStore, richInput, richLast,
          call, deleters>>

----------------------------------------------------------------------------
(* JavaScript values *)

Undefined == [t |-> "undefined"]
Null == [t |-> "null"]
JsStr(s) == [t |-> "string", s |-> s]
JsBool(b) == [t |-> "boolean", b |-> b]

JsNum == [t |-> "number"]

IsString(v) == v.t = "string"

\* Boolean(value): undefined, null, false and "" are falsy.
ToBoolean(v) ==
    CASE v.t = "undefined" -> FALSE
      [] v.t = "null" -> FALSE
      [] v.t = "boolean" -> v.b
      [] v.t = "string" -> Len(v.s) > 0
      [] OTHER -> TRUE

----------------------------------------------------------------------------
(* Strings *)

Digits == {"0", "1", "2", "3", "4", "5", "6", "7", "8", "9"}

\* UTF-16 code units of the characters the model uses.
CharCode(c) ==
    CASE c = " " -> 32
      [] c = "-" -> 45
      [] c = "/" -> 47
      [] c = "0" -> 48 [] c = "1" -> 49 [] c = "2" -> 50 [] c = "3" -> 51
      [] c = "4" -> 52 [] c = "5" -> 53 [] c = "6" -> 54 [] c = "7" -> 55
      [] c = "8" -> 56 [] c = "9" -> 57
      [] c = "A" -> 65 [] c = "B" -> 66 [] c = "D" -> 68
      [] c = "a" -> 97 [] c = "b" -> 98 [] c = "d" -> 100
      [] OTHER -> 120

DigitValue(c) == CharCode(c) - 48

\* a < b on JavaScript strings: code-unit lexicographic order.
RECURSIVE StrLess(_, _)
StrLess(a, b) ==
    IF Len(b) = 0 THEN FALSE
    ELSE IF Len(a) = 0 THEN TRUE
    ELSE IF CharCode(Head(a)) # CharCode(Head(b))
         THEN CharCode(Head(a)) < CharCode(Head(b))
    ELSE StrLess(Tail(a), Tail(b))

RECURSIVE TrimStart(_)
TrimStart(s) ==
    IF Len(s) > 0 /\ Head(s) = " " THEN TrimStart(Tail(s)) ELSE s

RECURSIVE TrimEnd(_)
TrimEnd(s) ==
    IF Len(s) > 0 /\ s[Len(s)] = " " THEN TrimEnd(SubSeq(s, 1, Len(s) - 1)) ELSE s

\* String.prototype.trim
Trim(s) == TrimEnd(TrimStart(s))

\* String.prototype.startsWith
StartsWith(s, prefix) ==
    Len(s) >= Len(prefix) /\ SubSeq(s, 1, Len(prefix)) = prefix

\* String.prototype.slice(from) with a 0-based start index
SliceFrom(s, from) == SubSeq(s, from + 1, Len(s))

LowerChar(c) ==
    CASE c = "A" -> "a"
      [] c = "B" -> "b"
      [] c = "D" -> "d"
      [] OTHER -> c

\* String.prototype.toLowerCase
ToLowerCase(s) == [i \in 1..Len(s) |-> LowerChar(s[i])]

\* String.prototype.split(sep) for a one-character separator
RECURSIVE SplitOn(_, _)
SplitOn(s, sep) ==
    IF \A i \in 1..Len(s) : s[i] # sep THEN <<s>>
    ELSE LET k == CHOOSE i \in 1..Len(s) : s[i] = sep /\ \A j \in 1..(i - 1) : s[j] # sep
         IN <<SubSeq(s, 1, k - 1)>> \o SplitOn(SubSeq(s, k + 1, Len(s)), sep)

----------------------------------------------------------------------------
(* Errors and validator results *)

AppError(statusCode, code, message) ==
    [kind |-> "AppError", statusCode |-> statusCode, code |-> code, message |-> message]

\* new AppError(statusCode, code, message, details)
AppErrorWith(statusCode, code, message, details) ==
    [kind |-> "AppError", statusCode |-> statusCode, code |-> code, message |-> message,
     details |-> details]

\* A validator either returns a value or throws.
Ok(v) == [ok |-> TRUE, v |-> v]
Throw(e) == [ok |-> FALSE, err |-> e]

----------------------------------------------------------------------------
(* Terminal error handler (middleware/error.ts) *)

PrismaError(code) == [kind |-> "Prisma", code |-> code]

\* A PrismaClientKnownRequestError with its meta object
PrismaErrorWith(code, meta) == [kind |-> "Prisma", code |-> code, meta |-> meta]

\* error.meta and error.details: undefined when the error was made without one
MetaOf(error) == IF "meta" \in DOMAIN error THEN error.meta ELSE Undefined
DetailsOf(error) == IF "details" \in DOMAIN error THEN error.details ELSE Undefined

\* As normalizePrismaError, with the unique-constraint case missing.
normalizePrismaErrorNoUnique(error) ==
    IF error.code = "P2003"
    THEN AppErrorWith(400, "BAD_REQUEST", <<"Invalid relation reference">>, MetaOf(error))
    ELSE IF error.code = "P2025"
    THEN AppErrorWith(404, "NOT_FOUND", <<"Resource not found">>, MetaOf(error))
    ELSE AppErrorWith(500, "INTERNAL_ERROR", <<"Database request failed">>, MetaOf(error))

\* As normalizePrismaError, with the foreign-key case answered as a conflict.
normalizePrismaErrorFkConflict(error) ==
    IF error.code = "P2002" \/ error.code = "P2003"
    THEN AppErrorWith(409, "CONFLICT", <<"Resource already exists">>, MetaOf(error))
    ELSE IF error.code = "P2025"
    THEN AppErrorWith(404, "NOT_FOUND", <<"Resource not found">>, MetaOf(error))
    ELSE AppErrorWith(500, "INTERNAL_ERROR", <<"Database request failed">>, MetaOf(error))

\* As normalizePrismaError, with the record-not-found case missing.
normalizePrismaErrorNoNotFound(error) ==
    IF error.code = "P2002"
    THEN AppErrorWith(409, "CONFLICT", <<"Resource already exists">>, MetaOf(error))
    ELSE IF error.code = "P2003"
    THEN AppErrorWith(400, "BAD_REQUEST", <<"Invalid relation reference">>, MetaOf(error))
    ELSE AppErrorWith(500, "INTERNAL_ERROR", <<"Database request failed">>, MetaOf(error))

normalizePrismaError(error) ==
    IF error.code = "P2002"
    THEN AppErrorWith(409, "CONFLICT", <<"Resource already exists">>, MetaOf(error))
    ELSE IF error.code = "P2003"
    THEN AppErrorWith(400, "BAD_REQUEST", <<"Invalid relation reference">>, MetaOf(error))
    ELSE IF error.code = "P2025"
    THEN AppErrorWith(404, "NOT_FOUND", <<"Resource not found">>, MetaOf(error))
    ELSE AppErrorWith(500, "INTERNAL_ERROR", <<"Database request failed">>, MetaOf(error))

\* error.type === type.  The error body-parser makes for an oversized body
\* carries type "entity.too.large"; any other error has a type only when it
\* was given one.
TypeIs(error, type) ==
    IF "type" \in DOMAIN error THEN error.type = type
    ELSE error.kind = "TooLarge" /\ type = "entity.too.large"

\* As errorResponse, with the AppError test ahead of the oversized-body test.
errorResponseAppErrorFirst(error, env) ==
    IF error.kind = "AppError"
    THEN [status |-> error.statusCode, code |-> error.code, message |-> error.message,
          details |-> DetailsOf(error)]
    ELSE IF TypeIs(error, "entity.too.large")
    THEN [status |-> 400, code |-> "BAD_REQUEST",
          message |-> <<"Upload payload too large. Max 10 images, 5MB each.">>,
          details |-> Undefined]
    ELSE IF error.kind = "Prisma"
    THEN LET normalized == normalizePrismaError(error)
         IN [status |-> normalized.statusCode, code |-> normalized.code,
             message |-> normalized.message, details |-> normalized.details]
    ELSE LET message == IF error.kind = "Error" THEN error.message ELSE <<"Unknown error">>
         IN [status |-> 500, code |-> "INTERNAL_ERROR", message |-> <<"Internal server error">>,
             details |-> IF env = "production" THEN Undefined ELSE JsStr(message)]

\* As errorResponse, attaching the underlying message in every mode.
errorResponseAlwaysDetails(error, env) ==
    IF TypeIs(error, "entity.too.large")
    THEN [status |-> 400, code |-> "BAD_REQUEST",
          message |-> <<"Upload payload too large. Max 10 images, 5MB each.">>,
          details |-> Undefined]
    ELSE IF error.kind = "AppError"
    THEN [status |-> error.statusCode, code |-> error.code, message |-> error.message,
          details |-> DetailsOf(error)]
    ELSE IF error.kind = "Prisma"
    THEN LET normalized == normalizePrismaError(error)
         IN [status |-> normalized.statusCode, code |-> normalized.code,
             message |-> normalized.message, details |-> normalized.details]
    ELSE LET message == IF error.kind = "Error" THEN error.message ELSE <<"Unknown error">>
         IN [status |-> 500, code |-> "INTERNAL_ERROR", message |-> <<"Internal server error">>,
             details |-> JsStr(message)]

\* errorHandler: the status and the JSON body { error: { code, message, details } }
\* it writes for an error, under a value of NODE_ENV.
errorResponse(error, env) ==
    IF TypeIs(error, "entity.too.large")
    THEN [status |-> 400, code |-> "BAD_REQUEST",
          message |-> <<"Upload payload too large. Max 10 images, 5MB each.">>,
          details |-> Undefined]
    ELSE IF error.kind = "AppError"
    THEN [status |-> error.statusCode, code |-> error.code, message |-> error.message,
          details |-> DetailsOf(error)]
    ELSE IF error.kind = "Prisma"
    THEN LET normalized == normalizePrismaError(error)
         IN [status |-> normalized.statusCode, code |-> normalized.code,
             message |-> normalized.message, details |-> normalized.details]
    ELSE LET message == IF error.kind = "Error" THEN error.message ELSE <<"Unknown error">>
         IN [status |-> 500, code |-> "INTERNAL_ERROR", message |-> <<"Internal server error">>,
             details |-> IF env = "production" THEN Undefined ELSE JsStr(message)]

\* The status, code and message of that response, which no mode changes.
errorHandler(error) ==
    LET response == errorResponse(error, "production")
    IN [status |-> response.status, code |-> response.code, message |-> response.message]

\* A success response written by a controller.
Success(status) == [status |-> status, code |-> "OK", message |-> <<>>]

----------------------------------------------------------------------------
(* Validators (utils/validators.ts) *)

validateRequiredString(value, fieldName) ==
    IF ~IsString(value) \/ Len(Trim(value.s)) = 0
    THEN Throw(AppError(400, "BAD_REQUEST", <<fieldName, " is required">>))
    ELSE Ok(JsStr(Trim(value.s)))

\* Returns Undefined for an absent field, else the trimmed string.
validateOptionalString(value, fieldName) ==
    IF value = Undefined THEN Ok(Undefined)
    ELSE IF ~IsString(value)
    THEN Throw(AppError(400, "BAD_REQUEST", <<fieldName, " must be a string">>))
    ELSE IF Len(Trim(value.s)) = 0
    THEN Throw(AppError(400, "BAD_REQUEST", <<fieldName, " cannot be empty">>))
    ELSE Ok(JsStr(Trim(value.s)))

validateRequiredStringWithMaxLength(value, fieldName, maxLength) ==
    LET validated == validateRequiredString(value, fieldName)
    IN IF ~validated.ok THEN validated
       ELSE IF Len(validated.v.s) > maxLength
       THEN Throw(AppError(400, "BAD_REQUEST", <<fieldName, " is too long">>))
       ELSE validated

validateOptionalStringWithMaxLength(value, fieldName, maxLength) ==
    LET validated == validateOptionalString(value, fieldName)
    IN IF ~validated.ok THEN validated
       ELSE IF validated.v # Undefined /\ Len(validated.v.s) > maxLength
       THEN Throw(AppError(400, "BAD_REQUEST", <<fieldName, " is too long">>))
       ELSE validated

\* /^\d{4}-(0[1-9]|1[0-2])$/
MONTH_PATTERN(s) ==
    /\ Len(s) = 7
    /\ \A i \in 1..4 : s[i] \in Digits
    /\ s[5] = "-"
    /\ \/ s[6] = "0" /\ s[7] \in Digits \ {"0"}
       \/ s[6] = "1" /\ s[7] \in {"0", "1", "2"}

validateRequiredMonthString(value, fieldName) ==
    IF ~IsString(value) \/ ~MONTH_PATTERN(value.s)
    THEN Throw(AppError(400, "BAD_REQUEST", <<fieldName, " must use YYYY-MM format">>))
    ELSE Ok(value)

validateOptionalMonthString(value, fieldName) ==
    IF value = Undefined THEN Ok(Undefined)
    ELSE validateRequiredMonthString(value, fieldName)

\* Mutation of validateExperienceChronology: `<=` in place of `<`.
validateExperienceChronologyLeq(startMonth, endMonth, isCurrent) ==
    IF isCurrent /\ ToBoolean(endMonth)
    THEN Throw(AppError(400, "BAD_REQUEST", <<"endMonth must be null when isCurrent is true">>))
    ELSE IF ToBoolean(endMonth) /\ ~StrLess(startMonth, endMonth.s)
    THEN Throw(AppError(400, "BAD_REQUEST", <<"endMonth cannot be earlier than startMonth">>))
    ELSE Ok(Undefined)

\* startMonth is a string; endMonth is a string, null or undefined.
validateExperienceChronology(startMonth, endMonth, isCurrent) ==
    IF isCurrent /\ ToBoolean(endMonth)
    THEN Throw(AppError(400, "BAD_REQUEST", <<"endMonth must be null when isCurrent is true">>))
    ELSE IF ToBoolean(endMonth) /\ StrLess(endMonth.s, startMonth)
    THEN Throw(AppError(400, "BAD_REQUEST", <<"endMonth cannot be earlier than startMonth">>))
    ELSE Ok(Undefined)

\* payload[field] of a JSON body: a key the body lacks reads as undefined.
Field(payload, field) == IF field \in DOMAIN payload THEN payload[field] ELSE Undefined

requireAtLeastOneField(payload, fields) ==
    IF \E i \in 1..Len(fields) : Field(payload, fields[i]) # Undefined
    THEN Ok(Undefined)
    ELSE Throw(AppError(400, "BAD_REQUEST", <<"At least one of these fields is required">>))

\* a ?? b
Nullish(a, b) == IF a = Undefined \/ a = Null THEN b ELSE a

JsArray(items) == [t |-> "array", items |-> items]

\* As the loop of validateTags, with the trimmed entry itself as the key.
RECURSIVE validateTagsLoopExactKey(_, _, _, _, _)
validateTagsLoopExactKey(items, i, seen, deduped, fieldName) ==
    IF i > Len(items) THEN Ok(deduped)
    ELSE LET entry == items[i]
             normalized == Trim(entry.s)
             dedupeKey == normalized
         IN IF ~IsString(entry)
            THEN Throw(AppError(400, "BAD_REQUEST", <<fieldName, " must contain only strings">>))
            ELSE IF Len(normalized) = 0 \/ Len(normalized) > 40
            THEN Throw(AppError(400, "BAD_REQUEST",
                                <<fieldName, " entries must be between 1 and 40 characters">>))
            ELSE IF dedupeKey \notin seen
            THEN validateTagsLoopExactKey(items, i + 1, seen \cup {dedupeKey},
                    Append(deduped, normalized), fieldName)
            ELSE validateTagsLoopExactKey(items, i + 1, seen, deduped, fieldName)

\* The loop of validateTags from entry i on.
RECURSIVE validateTagsLoop(_, _, _, _, _)
validateTagsLoop(items, i, seen, deduped, fieldName) ==
    IF i > Len(items) THEN Ok(deduped)
    ELSE LET entry == items[i]
             normalized == Trim(entry.s)
             dedupeKey == ToLowerCase(normalized)
         IN IF ~IsString(entry)
            THEN Throw(AppError(400, "BAD_REQUEST", <<fieldName, " must contain only strings">>))
            ELSE IF Len(normalized) = 0 \/ Len(normalized) > 40
            THEN Throw(AppError(400, "BAD_REQUEST",
                                <<fieldName, " entries must be between 1 and 40 characters">>))
            ELSE IF dedupeKey \notin seen
            THEN validateTagsLoop(items, i + 1, seen \cup {dedupeKey},
                    Append(deduped, normalized), fieldName)
            ELSE validateTagsLoop(items, i + 1, seen, deduped, fieldName)

validateTags(value, fieldName) ==
    IF value.t # "array"
    THEN Throw(AppError(400, "BAD_REQUEST", <<fieldName, " must be an array of strings">>))
    ELSE validateTagsLoop(value.items, 1, {}, <<>>, fieldName)

\* The loop of validateHighlights from entry i on.
RECURSIVE validateHighlightsLoop(_, _, _, _, _)
validateHighlightsLoop(items, i, seen, deduped, fieldName) ==
    IF i > Len(items) THEN Ok(deduped)
    ELSE LET entry == items[i]
             normalized == Trim(entry.s)
             dedupeKey == ToLowerCase(normalized)
         IN IF ~IsString(entry)
            THEN Throw(AppError(400, "BAD_REQUEST", <<fieldName, " must contain only strings">>))
            ELSE IF Len(normalized) = 0 \/ Len(normalized) > 200
            THEN Throw(AppError(400, "BAD_REQUEST",
                                <<fieldName, " entries must be between 1 and 200 characters">>))
            ELSE IF dedupeKey \notin seen
            THEN validateHighlightsLoop(items, i + 1, seen \cup {dedupeKey},
                    Append(deduped, normalized), fieldName)
            ELSE validateHighlightsLoop(items, i + 1, seen, deduped, fieldName)

validateHighlights(value, fieldName) ==
    IF value.t # "array"
    THEN Throw(AppError(400, "BAD_REQUEST", <<fieldName, " must be an array of strings">>))
    ELSE validateHighlightsLoop(value.items, 1, {}, <<>>, fieldName)

validateTechTags(value, fieldName) == validateTags(value, fieldName)

----------------------------------------------------------------------------
(* Access tokens (utils/jwt.ts).  jsonwebtoken's compact HS256 token is     *)
(* header "." payload "." signature; it is modelled as that sequence, with  *)
(* the signature a keyed digest of header and payload, so that a token      *)
(* verifies only under the key that signed exactly this header and payload. *)

\* process.env.JWT_EXPIRES_IN || "7d", in days; the clock counts days.
JWT_EXPIRES_IN_DAYS == 7

MaxNow == 8

\* NumericDate values as they stand in the JSON payload, by day
TimeStrings ==
    <<"t0", "t1", "t2", "t3", "t4", "t5", "t6", "t7", "t8", "t9", "t10", "t11",
      "t12", "t13", "t14", "t15", "t16", "t17", "t18", "t19", "t20">>

\* One claim of the JSON payload, base64url: absent, a string or a number.
\* The characters that delimit a token never occur inside a segment.
EncodeClaim(v) ==
    LET EscapeChar(c) ==
            CASE c = "." -> "%2E"
              [] c = "," -> "%2C"
              [] c = " " -> "%20"
              [] OTHER -> c
    IN IF v.t = "string" THEN <<"s">> \o [i \in 1..Len(v.s) |-> EscapeChar(v.s[i])]
       ELSE IF v.t = "number" THEN <<"n">>
       ELSE <<>>

DecodeClaim(seg) ==
    LET UnescapeChar(c) ==
            CASE c = "%2E" -> "."
              [] c = "%2C" -> ","
              [] c = "%20" -> " "
              [] OTHER -> c
    IN IF Len(seg) = 0 THEN Undefined
       ELSE IF Head(seg) = "s" THEN JsStr([i \in 1..(Len(seg) - 1) |-> UnescapeChar(seg[i + 1])])
       ELSE JsNum

\* HMAC-SHA256 of the signing input under the secret, base64url: a segment
\* determined by exactly this key and this input, free of the delimiter.
Hmac(secret, signingInput) ==
    <<secret>> \o [i \in 1..Len(signingInput) |->
                      IF signingInput[i] = "." THEN "_" ELSE signingInput[i]]

\* jwt.sign(claims, secret, {algorithm: "HS256"}) for claims sub, email, exp
JwtSign(claims, secret) ==
    LET signingInput ==
            <<"HS256", ".">> \o EncodeClaim(claims.sub) \o <<",">>
                \o EncodeClaim(claims.email) \o <<",">> \o <<TimeStrings[claims.exp + 1]>>
    IN signingInput \o <<".">> \o Hmac(secret, signingInput)

JwtError(message) == [kind |-> "Error", message |-> message]

\* process.env.JWT_SECRET when the variable is not set
NoSecret == "unset"

getJwtConfig(secret) ==
    IF secret = NoSecret THEN Throw(JwtError(<<"JWT_SECRET is not configured">>))
    ELSE Ok(secret)

\* jwt.verify(token, secret): the decoded payload, or the error thrown.
JwtVerify(token, secret, clock) ==
    LET parts == SplitOn(token, ".")
        signingInput == parts[1] \o <<".">> \o parts[2]
        claims == SplitOn(parts[2], ",")
        IsTimeString(c) == \E n \in 1..Len(TimeStrings) : TimeStrings[n] = c
        TimeValue(c) == (CHOOSE n \in 1..Len(TimeStrings) : TimeStrings[n] = c) - 1
    IN IF Len(parts) # 3 \/ parts[1] # <<"HS256">>
       THEN Throw(JwtError(<<"jwt malformed">>))
       ELSE IF parts[3] # Hmac(secret, signingInput)
       THEN Throw(JwtError(<<"invalid signature">>))
       ELSE IF Len(claims) # 3 \/ Len(claims[3]) # 1
       THEN Throw(JwtError(<<"invalid token">>))
       ELSE IF ~IsTimeString(claims[3][1])
       THEN Throw(JwtError(<<"invalid token">>))
       ELSE IF clock >= TimeValue(claims[3][1])
       THEN Throw(JwtError(<<"jwt expired">>))
       ELSE Ok([sub |-> DecodeClaim(claims[1]), email |-> DecodeClaim(claims[2])])

\* payload is {userId, email}, both strings.
signAccessToken(payload, secret, clock) ==
    LET config == getJwtConfig(secret)
    IN IF ~config.ok THEN config
       ELSE Ok(JwtSign([sub |-> JsStr(payload.userId), email |-> JsStr(payload.email),
                        exp |-> clock + JWT_EXPIRES_IN_DAYS], config.v))

\* The string behind a claim, for a payload that is returned as it was decoded.
ClaimString(v) == IF IsString(v) THEN v.s ELSE <<>>

\* As verifyAccessToken, rejecting only a payload in which neither claim is a string.
verifyAccessTokenEitherString(token, secret, clock) ==
    LET config == getJwtConfig(secret)
        decoded == JwtVerify(token, config.v, clock)
    IN IF ~config.ok THEN config
       ELSE IF ~decoded.ok THEN decoded
       ELSE IF ~IsString(decoded.v.sub) /\ ~IsString(decoded.v.email)
       THEN Throw(JwtError(<<"Invalid token payload">>))
       ELSE Ok([userId |-> ClaimString(decoded.v.sub), email |-> ClaimString(decoded.v.email)])

verifyAccessToken(token, secret, clock) ==
    LET config == getJwtConfig(secret)
        decoded == JwtVerify(token, config.v, clock)
    IN IF ~config.ok THEN config
       ELSE IF ~decoded.ok THEN decoded
       ELSE IF ~IsString(decoded.v.sub) \/ ~IsString(decoded.v.email)
       THEN Throw(JwtError(<<"Invalid token payload">>))
       ELSE Ok([userId |-> decoded.v.sub.s, email |-> decoded.v.email.s])

----------------------------------------------------------------------------
(* Auth gate (middleware/auth.ts) *)

BearerPrefix == <<"B", "e", "a", "r", "e", "r", " ">>

\* next() was called without an error
NoError == [kind |-> "none"]

\* As requireAuth, without the check of the scheme.
requireAuthAnyScheme(authHeader, secret, clock) ==
    IF ~ToBoolean(authHeader)
    THEN [calls |-> <<AppError(401, "UNAUTHORIZED",
                               <<"Missing or invalid Authorization header">>)>>,
          auth |-> Undefined]
    ELSE LET token == Trim(SliceFrom(authHeader.s, Len(BearerPrefix)))
             payload == verifyAccessToken(token, secret, clock)
         IN IF Len(token) = 0
            THEN [calls |-> <<AppError(401, "UNAUTHORIZED", <<"Missing access token">>)>>,
                  auth |-> Undefined]
            ELSE IF payload.ok
            THEN [calls |-> <<NoError>>,
                  auth |-> [userId |-> payload.v.userId, email |-> payload.v.email]]
            ELSE [calls |-> <<AppError(401, "UNAUTHORIZED", <<"Invalid or expired token">>)>>,
                  auth |-> Undefined]

\* requireAuth: the calls it makes to next, in order, and req.auth afterwards.
requireAuth(authHeader, secret, clock) ==
    IF ~ToBoolean(authHeader) \/ ~StartsWith(authHeader.s, BearerPrefix)
    THEN [calls |-> <<AppError(401, "UNAUTHORIZED",
                               <<"Missing or invalid Authorization header">>)>>,
          auth |-> Undefined]
    ELSE LET token == Trim(SliceFrom(authHeader.s, Len(BearerPrefix)))
             payload == verifyAccessToken(token, secret, clock)
         IN IF Len(token) = 0
            THEN [calls |-> <<AppError(401, "UNAUTHORIZED", <<"Missing access token">>)>>,
                  auth |-> Undefined]
            ELSE IF payload.ok
            THEN [calls |-> <<NoError>>,
                  auth |-> [userId |-> payload.v.userId, email |-> payload.v.email]]
            ELSE [calls |-> <<AppError(401, "UNAUTHORIZED", <<"Invalid or expired token">>)>>,
                  auth |-> Undefined]

----------------------------------------------------------------------------
(* Users, login and the route tables (utils/seed-user.ts,                   *)
(* controllers/auth.controller.ts, routes, app.ts)                          *)

\* bcrypt as the data model describes it: a hash that only its own password matches.
hashPassword(password) == <<"$2b$">> \o password
comparePassword(password, hash) == hash = hashPassword(password)

normalizeEmail(email) == ToLowerCase(Trim(email))

\* SEED_ADMIN_EMAIL / SEED_ADMIN_PASSWORD as deployments set them
SeedEnvs ==
    {[email |-> <<" ", "A">>, password |-> <<" ", "p", " ">>],
     [email |-> <<"b">>, password |-> <<"d">>]}

SeedUserId == <<"u", "1">>

\* The User table after upsertSeedAdminUser on an empty table.
upsertSeedAdminUser(env) ==
    {[id |-> SeedUserId,
      email |-> normalizeEmail(env.email),
      passwordHash |-> hashPassword(Trim(env.password))]}

LoginBodies ==
    [email : {Undefined, JsStr(<<"a">>), JsStr(<<"A", " ">>), JsStr(<<"b">>), JsStr(<<" ">>)},
     password : {Undefined, JsStr(<<"p">>), JsStr(<<" ", "p">>), JsStr(<<"d">>), JsStr(<<" ">>)}]

NoLoginBody == [email |-> Undefined, password |-> Undefined]

NoPayload == [token |-> <<>>, user |-> Undefined]

\* As login, looking the user up by the e-mail as typed.
loginAsTyped(body, table, secret, clock) ==
    LET email == validateRequiredString(body.email, "email")
        password == validateRequiredString(body.password, "password")
        found == {u \in table : u.email = email.v.s}
        user == CHOOSE u \in found : TRUE
        token == signAccessToken([userId |-> user.id, email |-> user.email], secret, clock)
        unauthorized == AppError(401, "UNAUTHORIZED", <<"Invalid email or password">>)
    IN IF ~email.ok THEN [resp |-> errorHandler(email.err), payload |-> NoPayload]
       ELSE IF ~password.ok THEN [resp |-> errorHandler(password.err), payload |-> NoPayload]
       ELSE IF found = {} THEN [resp |-> errorHandler(unauthorized), payload |-> NoPayload]
       ELSE IF ~comparePassword(password.v.s, user.passwordHash)
       THEN [resp |-> errorHandler(unauthorized), payload |-> NoPayload]
       ELSE IF ~token.ok THEN [resp |-> errorHandler(token.err), payload |-> NoPayload]
       ELSE [resp |-> Success(200),
             payload |-> [token |-> token.v,
                          user |-> [id |-> user.id, email |-> user.email]]]

\* As login, with an answer of its own for an e-mail no user has.
loginNamingUnknownEmail(body, table, secret, clock) ==
    LET email == validateRequiredString(body.email, "email")
        password == validateRequiredString(body.password, "password")
        found == {u \in table : u.email = ToLowerCase(email.v.s)}
        user == CHOOSE u \in found : TRUE
        token == signAccessToken([userId |-> user.id, email |-> user.email], secret, clock)
        unauthorized == AppError(401, "UNAUTHORIZED", <<"Invalid email or password">>)
    IN IF ~email.ok THEN [resp |-> errorHandler(email.err), payload |-> NoPayload]
       ELSE IF ~password.ok THEN [resp |-> errorHandler(password.err), payload |-> NoPayload]
       ELSE IF found = {}
       THEN [resp |-> errorHandler(AppError(401, "UNAUTHORIZED", <<"Unknown email">>)),
             payload |-> NoPayload]
       ELSE IF ~comparePassword(password.v.s, user.passwordHash)
       THEN [resp |-> errorHandler(unauthorized), payload |-> NoPayload]
       ELSE IF ~token.ok THEN [resp |-> errorHandler(token.err), payload |-> NoPayload]
       ELSE [resp |-> Success(200),
             payload |-> [token |-> token.v,
                          user |-> [id |-> user.id, email |-> user.email]]]

\* POST /api/auth/login: the response and its JSON payload.
login(body, table, secret, clock) ==
    LET email == validateRequiredString(body.email, "email")
        password == validateRequiredString(body.password, "password")
        found == {u \in table : u.email = ToLowerCase(email.v.s)}
        user == CHOOSE u \in found : TRUE
        token == signAccessToken([userId |-> user.id, email |-> user.email], secret, clock)
        unauthorized == AppError(401, "UNAUTHORIZED", <<"Invalid email or password">>)
    IN IF ~email.ok THEN [resp |-> errorHandler(email.err), payload |-> NoPayload]
       ELSE IF ~password.ok THEN [resp |-> errorHandler(password.err), payload |-> NoPayload]
       ELSE IF found = {} THEN [resp |-> errorHandler(unauthorized), payload |-> NoPayload]
       ELSE IF ~comparePassword(password.v.s, user.passwordHash)
       THEN [resp |-> errorHandler(unauthorized), payload |-> NoPayload]
       ELSE IF ~token.ok THEN [resp |-> errorHandler(token.err), payload |-> NoPayload]
       ELSE [resp |-> Success(200),
             payload |-> [token |-> token.v,
                          user |-> [id |-> user.id, email |-> user.email]]]

Route(method, path, chain) == [method |-> method, path |-> path, chain |-> chain]

projectRouter ==
    {Route("GET", "/", <<"listProjects">>),
     Route("GET", "/:id", <<"getProjectById">>),
     Route("POST", "/", <<"requireAuth", "createProject">>),
     Route("PATCH", "/:id", <<"requireAuth", "updateProject">>),
     Route("DELETE", "/:id", <<"requireAuth", "deleteProject">>)}

blogRouter ==
    {Route("GET", "/", <<"listBlogs">>),
     Route("GET", "/:id", <<"getBlogById">>),
     Route("POST", "/", <<"requireAuth", "createBlog">>),
     Route("PATCH", "/:id", <<"requireAuth", "updateBlog">>),
     Route("DELETE", "/:id", <<"requireAuth", "deleteBlog">>)}

\* As categoryRouter, with the delete route left open.
categoryRouterOpenDelete ==
    {Route("GET", "/", <<"listCategories">>),
     Route("GET", "/:id", <<"getCategoryById">>),
     Route("POST", "/", <<"requireAuth", "createCategory">>),
     Route("PATCH", "/:id", <<"requireAuth", "updateCategory">>),
     Route("DELETE", "/:id", <<"deleteCategory">>)}

categoryRouter ==
    {Route("GET", "/", <<"listCategories">>),
     Route("GET", "/:id", <<"getCategoryById">>),
     Route("POST", "/", <<"requireAuth", "createCategory">>),
     Route("PATCH", "/:id", <<"requireAuth", "updateCategory">>),
     Route("DELETE", "/:id", <<"requireAuth", "deleteCategory">>)}

experienceRouter ==
    {Route("GET", "/", <<"listExperiences">>),
     Route("GET", "/:id", <<"getExperienceById">>),
     Route("POST", "/", <<"requireAuth", "createExperience">>),
     Route("PATCH", "/:id", <<"requireAuth", "updateExperience">>),
     Route("DELETE", "/:id", <<"requireAuth", "deleteExperience">>)}

uploadRouter == {Route("POST", "/", <<"requireAuth", "uploadMiddleware", "uploadImages">>)}

authRouter == {Route("POST", "/login", <<"login">>)}

Resources == {"auth", "projects", "experiences", "categories", "blogs", "uploads"}

\* app.use(mount path, router)
RouterOf(resource) ==
    CASE resource = "auth" -> authRouter
      [] resource = "projects" -> projectRouter
      [] resource = "experiences" -> experienceRouter
      [] resource = "categories" -> categoryRouter
      [] resource = "blogs" -> blogRouter
      [] resource = "uploads" -> uploadRouter

\* The handlers express runs for a request: the matching route's, or the
\* catch-all that raises 404.
ChainOf(req) ==
    LET matching == {r \in RouterOf(req.resource) :
                        r.method = req.method /\ r.path = req.path}
    IN IF matching = {} THEN <<"notFound">>
       ELSE (CHOOSE r \in matching : TRUE).chain

Middleware == {"requireAuth", "uploadMiddleware", "notFound"}

----------------------------------------------------------------------------
(* Experience controller (controllers/experience.controller.ts) *)

MaxExperiences == 1

ExpIds == 1..MaxExperiences

NoRow == [t |-> "absent"]

M2023_12 == <<"2", "0", "2", "3", "-", "1", "2">>
M2024_02 == <<"2", "0", "2", "4", "-", "0", "2">>
BadMonth == <<"2", "0", "2", "4", "/", "0", "2">>

\* Valid YYYY-MM months the requests draw from.
Months == {M2023_12, M2024_02}

RoleDev == <<"D", "e", "v">>

NoBody == [role |-> Undefined, startMonth |-> Undefined,
           endMonth |-> Undefined, isCurrent |-> Undefined]

\* Request bodies: every combination of the three fields the chronology rule
\* reads, and bodies with a role (the representative of the independently
\* validated string fields), a malformed month or a non-boolean isCurrent.
ChronologyBodies ==
    [role : {Undefined},
     startMonth : {Undefined} \cup {JsStr(m) : m \in Months},
     endMonth : {Undefined, Null} \cup {JsStr(m) : m \in Months},
     isCurrent : {Undefined, JsBool(TRUE), JsBool(FALSE)}]

CompleteBody == [role |-> JsStr(RoleDev), startMonth |-> JsStr(M2023_12),
                 endMonth |-> JsStr(M2024_02), isCurrent |-> JsBool(FALSE)]

ExperienceBodies ==
    ChronologyBodies
    \cup {[b EXCEPT !.role = JsStr(RoleDev)] : b \in ChronologyBodies}
    \cup {[NoBody EXCEPT !.role = JsStr(<<" ">>)],
          [CompleteBody EXCEPT !.startMonth = JsStr(BadMonth)],
          [CompleteBody EXCEPT !.endMonth = JsStr(BadMonth)],
          [CompleteBody EXCEPT !.isCurrent = Null],
          [CompleteBody EXCEPT !.role = Undefined]}

ExperienceFields ==
    <<"company", "role", "employmentType", "location", "startMonth", "endMonth",
      "isCurrent", "summaryHtml", "highlights", "techTags", "links", "sortOrder">>

\* createExperience up to the prisma call: the row to insert, or the error thrown.
createExperienceData(body) ==
    LET role == validateRequiredStringWithMaxLength(body.role, "role", 120)
        startMonth == validateRequiredMonthString(body.startMonth, "startMonth")
        endMonth == IF body.endMonth = Null THEN Ok(Null)
                    ELSE validateOptionalMonthString(body.endMonth, "endMonth")
        isCurrent == IF body.isCurrent = Undefined THEN FALSE ELSE ToBoolean(body.isCurrent)
        chronology == validateExperienceChronology(startMonth.v.s, endMonth.v, isCurrent)
    IN IF ~role.ok THEN role
       ELSE IF ~startMonth.ok THEN startMonth
       ELSE IF ~endMonth.ok THEN endMonth
       ELSE IF ~chronology.ok THEN chronology
       ELSE Ok([role |-> role.v.s,
                startMonth |-> startMonth.v.s,
                endMonth |-> IF isCurrent THEN Null ELSE Nullish(endMonth.v, Null),
                isCurrent |-> isCurrent])

\* updateExperience after the row was found: the row as rewritten by
\* prisma.experience.update, or the error thrown.
updateExperienceData(existing, body) ==
    LET role == validateOptionalStringWithMaxLength(body.role, "role", 120)
        startMonth == validateOptionalMonthString(body.startMonth, "startMonth")
        endMonth == IF body.endMonth = Null THEN Ok(Null)
                    ELSE validateOptionalMonthString(body.endMonth, "endMonth")
        isCurrent == IF body.isCurrent = Undefined THEN Undefined
                     ELSE JsBool(ToBoolean(body.isCurrent))
        nextStartMonth == Nullish(startMonth.v, JsStr(existing.startMonth)).s
        nextIsCurrent == Nullish(isCurrent, JsBool(existing.isCurrent)).b
        nextEndMonth == IF nextIsCurrent THEN Null
                        ELSE Nullish(endMonth.v, existing.endMonth)
        chronology == validateExperienceChronology(nextStartMonth, nextEndMonth, nextIsCurrent)
    IN IF ~role.ok THEN role
       ELSE IF ~startMonth.ok THEN startMonth
       ELSE IF ~endMonth.ok THEN endMonth
       ELSE IF ~chronology.ok THEN chronology
       ELSE Ok([role |-> IF role.v # Undefined THEN role.v.s ELSE existing.role,
                startMonth |-> IF startMonth.v # Undefined THEN startMonth.v.s
                               ELSE existing.startMonth,
                endMonth |-> IF body.endMonth # Undefined THEN nextEndMonth
                             ELSE existing.endMonth,
                isCurrent |-> IF isCurrent # Undefined THEN isCurrent.b
                              ELSE existing.isCurrent])

ExpHandled(op, id, body, resp) ==
    [op |-> op, id |-> id, body |-> body, status |-> resp.status, code |-> resp.code]

\* POST /api/experiences
createExperience(body) ==
    LET data == createExperienceData(body)
    IN IF ~data.ok
       THEN /\ expLast' = ExpHandled("create", 0, body, errorHandler(data.err))
            /\ UNCHANGED <<experiences, nextExpId>>
       ELSE /\ nextExpId < MaxExperiences
            /\ nextExpId' = nextExpId + 1
            /\ experiences' = [experiences EXCEPT ![nextExpId + 1] = data.v]
            /\ expLast' = ExpHandled("create", nextExpId + 1, body, Success(201))

\* PATCH /api/experiences/:id
updateExperience(id, body) ==
    LET required == requireAtLeastOneField(body, ExperienceFields)
        existing == experiences[id]
    IN IF ~required.ok
       THEN /\ expLast' = ExpHandled("update", id, body, errorHandler(required.err))
            /\ UNCHANGED <<experiences, nextExpId>>
       ELSE IF existing = NoRow
       THEN /\ expLast' = ExpHandled("update", id, body,
                              errorHandler(AppError(404, "NOT_FOUND", <<"Experience not found">>)))
            /\ UNCHANGED <<experiences, nextExpId>>
       ELSE LET data == updateExperienceData(existing, body)
            IN IF ~data.ok
               THEN /\ expLast' = ExpHandled("update", id, body, errorHandler(data.err))
                    /\ UNCHANGED <<experiences, nextExpId>>
               ELSE /\ experiences' = [experiences EXCEPT ![id] = data.v]
                    /\ expLast' = ExpHandled("update", id, body, Success(200))
                    /\ UNCHANGED nextExpId

\* DELETE /api/experiences/:id
deleteExperience(id) ==
    IF experiences[id] = NoRow
    THEN /\ expLast' = ExpHandled("delete", id, NoBody,
                           errorHandler(AppError(404, "NOT_FOUND", <<"Experience not found">>)))
         /\ UNCHANGED <<experiences, nextExpId>>
    ELSE /\ experiences' = [experiences EXCEPT ![id] = NoRow]
         /\ expLast' = ExpHandled("delete", id, NoBody, Success(204))
         /\ UNCHANGED nextExpId

InitExp ==
    /\ experiences = [id \in ExpIds |-> NoRow]
    /\ nextExpId = 0
    /\ expLast = ExpHandled("none", 0, NoBody, Success(0))

CreateExperience ==
    /\ \E body \in ExperienceBodies : createExperience(body)
    /\ UNCHANGED <<catVars, authVars, tagVars, restVars>>
UpdateExperience ==
    /\ \E id \in ExpIds, body \in ExperienceBodies : updateExperience(id, body)
    /\ UNCHANGED <<catVars, authVars, tagVars, restVars>>
DeleteExperience ==
    /\ \E id \in ExpIds : deleteExperience(id)
    /\ UNCHANGED <<catVars, authVars, tagVars, restVars>>

NextExp == CreateExperience \/ UpdateExperience \/ DeleteExperience

\* createExperience alone, over a wider range of months: years that differ in
\* every digit position and months on both sides of the 09 / 10 boundary.
M1999_12 == <<"1", "9", "9", "9", "-", "1", "2">>
M2024_10 == <<"2", "0", "2", "4", "-", "1", "0">>

ChronMonths == {M1999_12, M2023_12, M2024_02, M2024_10}

ChronBodies ==
    [role : {JsStr(RoleDev)},
     startMonth : {JsStr(m) : m \in ChronMonths},
     endMonth : {Undefined, Null} \cup {JsStr(m) : m \in ChronMonths},
     isCurrent : {Undefined, JsBool(TRUE), JsBool(FALSE)}]

CreateExperienceChron ==
    /\ \E body \in ChronBodies : createExperience(body)
    /\ UNCHANGED <<catVars, authVars, tagVars, restVars>>

NextChron == CreateExperienceChron


----------------------------------------------------------------------------
(* Category and blog controllers (controllers/category.controller.ts,      *)
(* controllers/blog.controller.ts).  A handler runs up to its first        *)
(* data-store statement when the request arrives; a handler with a second  *)
(* statement is suspended in `inflight` between the two, and other         *)
(* requests run in between.                                                *)

MaxCategories == 2
MaxBlogs == 1
MaxInflight == 2

CatIds == 1..MaxCategories
BlogIds == 1..MaxBlogs

\* The id strings a request can carry; IdKey reads one back as a table key.
IdString(n) == <<(<<"1", "2", "3", "4", "5", "6", "7", "8", "9">>)[n]>>
IdKey(s) == IF Len(s) = 1 /\ s[1] \in Digits THEN DigitValue(s[1]) ELSE 0

NameA == <<"a">>
NameB == <<"b">>
TitleT == <<"t">>

CategoryBodies ==
    [name : {Undefined, JsStr(NameA), JsStr(<<" ", "a">>), JsStr(NameB), JsStr(<<" ">>)},
     description : {Undefined}]

BlogBodies ==
    [title : {JsStr(TitleT)},
     categoryId : {Undefined} \cup {JsStr(IdString(c)) : c \in CatIds}]
    \cup {[title |-> Undefined, categoryId |-> JsStr(IdString(1))]}

NoCatBody == [name |-> Undefined, description |-> Undefined]

\* A suspended request: what the handler keeps across its await.
Suspended(op, id, name, description, categoryId) ==
    [op |-> op, id |-> id, name |-> name, description |-> description,
     categoryId |-> categoryId]

CatHandled(op, id, name, resp) ==
    [op |-> op, id |-> id, name |-> name, status |-> resp.status, code |-> resp.code]

Answer(op, id, name, resp) == catLast' = CatHandled(op, id, name, resp)

Suspend(req) ==
    /\ BagCardinality(inflight) < MaxInflight
    /\ inflight' = inflight (+) SetToBag({req})
    /\ UNCHANGED <<categories, nextCatId, blogs, nextBlogId, catLast>>

Resume(req) == inflight' = inflight (-) SetToBag({req})

\* Category_name_key: another row already holds the name.
NameTaken(name, self) ==
    \E other \in CatIds \ {self} :
        categories[other] # NoRow /\ categories[other].name = name

\* Blog_categoryId_fkey: rows that reference the category.
BlogsOf(id) == {b \in BlogIds : blogs[b] # NoRow /\ blogs[b].categoryId = id}

\* POST /api/categories: one statement, prisma.category.create.
createCategory(body) ==
    LET name == validateRequiredString(body.name, "name")
        description == validateOptionalString(body.description, "description")
        failed == IF ~name.ok THEN name
                  ELSE IF ~description.ok THEN description
                  ELSE IF NameTaken(name.v.s, 0) THEN Throw(PrismaError("P2002"))
                  ELSE Ok(Undefined)
    IN IF ~failed.ok
       THEN /\ Answer("createCategory", 0, body.name, errorHandler(failed.err))
            /\ UNCHANGED <<categories, nextCatId, blogs, nextBlogId, inflight>>
       ELSE /\ nextCatId < MaxCategories
            /\ nextCatId' = nextCatId + 1
            /\ categories' = [categories EXCEPT ![nextCatId + 1] =
                   [name |-> name.v.s,
                    description |-> Nullish(description.v, Null)]]
            /\ Answer("createCategory", nextCatId + 1, body.name, Success(201))
            /\ UNCHANGED <<blogs, nextBlogId, inflight>>

\* PATCH /api/categories/:id up to prisma.category.findUnique.
updateCategoryFind(id, body) ==
    LET required == requireAtLeastOneField(body, <<"name", "description">>)
        name == validateOptionalString(body.name, "name")
        description == IF body.description = Null THEN Ok(Null)
                       ELSE validateOptionalString(body.description, "description")
        failed == IF ~required.ok THEN required
                  ELSE IF ~name.ok THEN name
                  ELSE IF ~description.ok THEN description
                  ELSE IF categories[id] = NoRow
                  THEN Throw(AppError(404, "NOT_FOUND", <<"Category not found">>))
                  ELSE Ok(Undefined)
    IN IF ~failed.ok
       THEN /\ Answer("updateCategory", id, body.name, errorHandler(failed.err))
            /\ UNCHANGED <<categories, nextCatId, blogs, nextBlogId, inflight>>
       ELSE Suspend(Suspended("updateCategory", id, name.v, description.v, 0))

\* PATCH /api/categories/:id: prisma.category.update and the response.
updateCategoryWrite(req) ==
    /\ Resume(req)
    /\ IF categories[req.id] = NoRow
       THEN /\ Answer("updateCategory", req.id, req.name, errorHandler(PrismaError("P2025")))
            /\ UNCHANGED <<categories, nextCatId, blogs, nextBlogId>>
       ELSE IF req.name # Undefined /\ NameTaken(req.name.s, req.id)
       THEN /\ Answer("updateCategory", req.id, req.name, errorHandler(PrismaError("P2002")))
            /\ UNCHANGED <<categories, nextCatId, blogs, nextBlogId>>
       ELSE /\ categories' = [categories EXCEPT ![req.id] =
                   [name |-> IF req.name # Undefined THEN req.name.s ELSE @.name,
                    description |-> IF req.description # Undefined
                                    THEN req.description ELSE @.description]]
            /\ Answer("updateCategory", req.id, req.name, Success(200))
            /\ UNCHANGED <<nextCatId, blogs, nextBlogId>>

\* DELETE /api/categories/:id up to prisma.category.findUnique with _count.blogs.
deleteCategoryFind(id) ==
    IF categories[id] = NoRow
    THEN /\ Answer("deleteCategory", id, Undefined,
                   errorHandler(AppError(404, "NOT_FOUND", <<"Category not found">>)))
         /\ UNCHANGED <<categories, nextCatId, blogs, nextBlogId, inflight>>
    ELSE IF Cardinality(BlogsOf(id)) > 0
    THEN /\ Answer("deleteCategory", id, Undefined,
                   errorHandler(AppError(409, "CONFLICT",
                                         <<"Cannot delete category with existing blogs">>)))
         /\ UNCHANGED <<categories, nextCatId, blogs, nextBlogId, inflight>>
    ELSE Suspend(Suspended("deleteCategory", id, Undefined, Undefined, 0))

\* DELETE /api/categories/:id: prisma.category.delete and the response.  The
\* foreign key of Blog is ON DELETE RESTRICT.
deleteCategoryWrite(req) ==
    /\ Resume(req)
    /\ IF categories[req.id] = NoRow
       THEN /\ Answer("deleteCategory", req.id, Undefined, errorHandler(PrismaError("P2025")))
            /\ UNCHANGED <<categories, nextCatId, blogs, nextBlogId>>
       ELSE IF BlogsOf(req.id) # {}
       THEN /\ Answer("deleteCategory", req.id, Undefined, errorHandler(PrismaError("P2003")))
            /\ UNCHANGED <<categories, nextCatId, blogs, nextBlogId>>
       ELSE /\ categories' = [categories EXCEPT ![req.id] = NoRow]
            /\ Answer("deleteCategory", req.id, Undefined, Success(204))
            /\ UNCHANGED <<nextCatId, blogs, nextBlogId>>

\* await prisma.category.findUnique in ensureCategoryExists
ensureCategoryExists(categoryId) ==
    IF IdKey(categoryId) \in CatIds /\ categories[IdKey(categoryId)] # NoRow
    THEN Ok(Undefined)
    ELSE Throw(AppError(400, "BAD_REQUEST", <<"Invalid categoryId">>))

SuspendedOn(op) == {req \in BagToSet(inflight) : req.op = op}

\* Blog rows that suspended createBlog requests are about to insert.
BlogsBeingCreated ==
    BagCardinality([req \in SuspendedOn("createBlog") |-> inflight[req]])

\* POST /api/blogs up to ensureCategoryExists.
createBlogFind(body) ==
    LET title == validateRequiredString(body.title, "title")
        categoryId == validateRequiredString(body.categoryId, "categoryId")
        exists == ensureCategoryExists(categoryId.v.s)
        failed == IF ~title.ok THEN title
                  ELSE IF ~categoryId.ok THEN categoryId
                  ELSE exists
    IN IF ~failed.ok
       THEN /\ Answer("createBlog", 0, body.categoryId, errorHandler(failed.err))
            /\ UNCHANGED <<categories, nextCatId, blogs, nextBlogId, inflight>>
       ELSE /\ nextBlogId + BlogsBeingCreated < MaxBlogs
            /\ Suspend(Suspended("createBlog", 0, title.v, Undefined, IdKey(categoryId.v.s)))

\* POST /api/blogs: prisma.blog.create and the response.
createBlogWrite(req) ==
    /\ Resume(req)
    /\ IF categories[req.categoryId] = NoRow
       THEN /\ Answer("createBlog", 0, req.name, errorHandler(PrismaError("P2003")))
            /\ UNCHANGED <<categories, nextCatId, blogs, nextBlogId>>
       ELSE /\ nextBlogId' = nextBlogId + 1
            /\ blogs' = [blogs EXCEPT ![nextBlogId + 1] =
                   [title |-> req.name.s, categoryId |-> req.categoryId]]
            /\ Answer("createBlog", nextBlogId + 1, req.name, Success(201))
            /\ UNCHANGED <<categories, nextCatId>>

\* DELETE /api/blogs/:id up to prisma.blog.findUnique.
deleteBlogFind(id) ==
    IF blogs[id] = NoRow
    THEN /\ Answer("deleteBlog", id, Undefined,
                   errorHandler(AppError(404, "NOT_FOUND", <<"Blog not found">>)))
         /\ UNCHANGED <<categories, nextCatId, blogs, nextBlogId, inflight>>
    ELSE Suspend(Suspended("deleteBlog", id, Undefined, Undefined, 0))

\* DELETE /api/blogs/:id: prisma.blog.delete and the response.
deleteBlogWrite(req) ==
    /\ Resume(req)
    /\ IF blogs[req.id] = NoRow
       THEN /\ Answer("deleteBlog", req.id, Undefined, errorHandler(PrismaError("P2025")))
            /\ UNCHANGED <<categories, nextCatId, blogs, nextBlogId>>
       ELSE /\ blogs' = [blogs EXCEPT ![req.id] = NoRow]
            /\ Answer("deleteBlog", req.id, Undefined, Success(204))
            /\ UNCHANGED <<categories, nextCatId, nextBlogId>>

InitCat ==
    /\ categories = [id \in CatIds |-> NoRow]
    /\ nextCatId = 0
    /\ blogs = [id \in BlogIds |-> NoRow]
    /\ nextBlogId = 0
    /\ inflight = EmptyBag
    /\ catLast = CatHandled("none", 0, Undefined, Success(0))

CreateCategory ==
    /\ \E body \in CategoryBodies : createCategory(body)
    /\ UNCHANGED <<expVars, authVars, tagVars, restVars>>
UpdateCategoryFind ==
    /\ \E id \in CatIds, body \in CategoryBodies : updateCategoryFind(id, body)
    /\ UNCHANGED <<expVars, authVars, tagVars, restVars>>
UpdateCategoryWrite ==
    /\ \E req \in SuspendedOn("updateCategory") : updateCategoryWrite(req)
    /\ UNCHANGED <<expVars, authVars, tagVars, restVars>>
DeleteCategoryFind ==
    /\ \E id \in CatIds : deleteCategoryFind(id)
    /\ UNCHANGED <<expVars, authVars, tagVars, restVars>>
DeleteCategoryWrite ==
    /\ \E req \in SuspendedOn("deleteCategory") : deleteCategoryWrite(req)
    /\ UNCHANGED <<expVars, authVars, tagVars, restVars>>
CreateBlogFind ==
    /\ \E body \in BlogBodies : createBlogFind(body)
    /\ UNCHANGED <<expVars, authVars, tagVars, restVars>>
CreateBlogWrite ==
    /\ \E req \in SuspendedOn("createBlog") : createBlogWrite(req)
    /\ UNCHANGED <<expVars, authVars, tagVars, restVars>>
DeleteBlogFind ==
    /\ \E id \in BlogIds : deleteBlogFind(id)
    /\ UNCHANGED <<expVars, authVars, tagVars, restVars>>
DeleteBlogWrite ==
    /\ \E req \in SuspendedOn("deleteBlog") : deleteBlogWrite(req)
    /\ UNCHANGED <<expVars, authVars, tagVars, restVars>>

\* Category names under create, update and delete.
NextCatName ==
    \/ CreateCategory
    \/ UpdateCategoryFind
    \/ UpdateCategoryWrite
    \/ DeleteCategoryFind
    \/ DeleteCategoryWrite

\* Category deletion against blog creation and deletion.
NextCatBlog ==
    \/ CreateCategory
    \/ DeleteCategoryFind
    \/ DeleteCategoryWrite
    \/ CreateBlogFind
    \/ CreateBlogWrite
    \/ DeleteBlogFind
    \/ DeleteBlogWrite

----------------------------------------------------------------------------
(* A request through the express stack (app.ts): the handlers of its route  *)
(* run in order, and the first next(error) goes to the terminal handler.    *)

Secrets == {"k1", "k2"}

Methods == {"GET", "POST", "PATCH", "DELETE"}
Paths == {"/", "/:id"}

\* How an Authorization header was put together, and by whom its token was
\* made: issued by signAccessToken, minted with other claims under a secret,
\* altered after signing, cut short, or not a token at all.
HeaderSpec(form, kind, sub, email, secret, iat) ==
    [form |-> form, kind |-> kind, sub |-> sub, email |-> email,
     secret |-> secret, iat |-> iat]

UserIdU1 == <<"u", "1">>
EmailA == <<"a">>
EmailBC == <<"b", ".", "c", " ">>

IssuedSpecs ==
    {HeaderSpec("bearer", "issued", JsStr(pl[1]), JsStr(pl[2]), k, iat) :
        pl \in {<<UserIdU1, EmailA>>, <<(<<>>), EmailBC>>}, k \in Secrets, iat \in {0, 1}}
    \cup {HeaderSpec("bearerPadded", "issued", JsStr(UserIdU1), JsStr(EmailA), k, 1) :
            k \in Secrets}

MintedSpecs ==
    {HeaderSpec("bearer", "minted", cl[1], cl[2], k, 1) :
        cl \in {<<JsNum, JsStr(EmailA)>>, <<Undefined, JsStr(EmailA)>>,
                <<JsStr(UserIdU1), JsNum>>, <<JsStr(UserIdU1), Undefined>>},
        k \in {"k1"}}

BrokenSpecs ==
    {HeaderSpec("bearer", kind, JsStr(UserIdU1), JsStr(EmailA), "k1", 1) :
        kind \in {"tampered", "truncated", "garbage"}}

OtherSchemeSpecs ==
    {HeaderSpec(form, "issued", JsStr(UserIdU1), JsStr(EmailA), "k1", 1) :
        form \in {"lowercase", "noSpace", "basic"}}

NoToken(form) == HeaderSpec(form, "none", Undefined, Undefined, "k1", 0)

HeaderSpecs ==
    IssuedSpecs \cup MintedSpecs
        \cup BrokenSpecs \cup OtherSchemeSpecs
        \cup {NoToken("missing"), NoToken("empty"), NoToken("bearerOnly"), NoToken("bearerBlank")}

TokenOf(hs) ==
    LET claims == [sub |-> hs.sub, email |-> hs.email, exp |-> hs.iat + JWT_EXPIRES_IN_DAYS]
        signed == JwtSign(claims, hs.secret)
        other == JwtSign([claims EXCEPT !.sub = JsStr(<<"u", "2">>)], hs.secret)
    IN CASE hs.kind = "issued" ->
                signAccessToken([userId |-> hs.sub.s, email |-> hs.email.s], hs.secret, hs.iat).v
         [] hs.kind = "minted" -> signed
         [] hs.kind = "tampered" ->
                SplitOn(other, ".")[1] \o <<".">> \o SplitOn(other, ".")[2]
                    \o <<".">> \o SplitOn(signed, ".")[3]
         [] hs.kind = "truncated" ->
                SplitOn(signed, ".")[1] \o <<".">> \o SplitOn(signed, ".")[2]
         [] hs.kind = "garbage" -> <<"x">>
         [] OTHER -> <<>>

\* req.headers.authorization
RenderHeader(hs) ==
    CASE hs.form = "missing" -> Undefined
      [] hs.form = "empty" -> JsStr(<<>>)
      [] hs.form = "bearer" -> JsStr(BearerPrefix \o TokenOf(hs))
      [] hs.form = "bearerPadded" -> JsStr(BearerPrefix \o <<" ">> \o TokenOf(hs) \o <<" ">>)
      [] hs.form = "lowercase" -> JsStr(<<"b", "e", "a", "r", "e", "r", " ">> \o TokenOf(hs))
      [] hs.form = "noSpace" -> JsStr(<<"B", "e", "a", "r", "e", "r">> \o TokenOf(hs))
      [] hs.form = "basic" -> JsStr(<<"B", "a", "s", "i", "c", " ">> \o TokenOf(hs))
      [] hs.form = "bearerOnly" -> JsStr(BearerPrefix)
      [] hs.form = "bearerBlank" -> JsStr(BearerPrefix \o <<" ", " ">>)

Request(method, resource, path, hs, body) ==
    [method |-> method, resource |-> resource, path |-> path,
     authorization |-> RenderHeader(hs), hs |-> hs, body |-> body]

Requests ==
    {Request(m, r, p, hs, NoLoginBody) :
        m \in Methods, r \in Resources \ {"auth"}, p \in Paths, hs \in HeaderSpecs}
    \cup {Request("POST", "auth", "/login", NoToken("missing"), b) : b \in LoginBodies}
    \cup {Request("GET", "auth", "/login", NoToken("missing"), NoLoginBody)}

NoRequest == Request("GET", "auth", "/", NoToken("missing"), NoLoginBody)

HttpIdle ==
    [phase |-> "idle", req |-> NoRequest, pos |-> 0, ran |-> <<>>,
     authNext |-> <<>>, auth |-> Undefined, resp |-> Success(0), payload |-> NoPayload]

\* The handler express is about to call.
Handler == ChainOf(http.req)[http.pos]

\* next(error): express skips to the terminal error handler, which responds.
Fail(handler, error) ==
    [http EXCEPT !.phase = "done",
                 !.ran = @ \o <<handler, "errorHandler">>,
                 !.resp = errorHandler(error)]

ReceiveRequest ==
    /\ http.phase = "idle"
    /\ \E req \in Requests :
          http' = [HttpIdle EXCEPT !.phase = "running", !.req = req, !.pos = 1]
    /\ UNCHANGED <<now, jwtSecret, users, expVars, catVars, tagVars, restVars>>

RunRequireAuth ==
    /\ http.phase = "running"
    /\ Handler = "requireAuth"
    /\ LET gate == requireAuth(http.req.authorization, jwtSecret, now)
       IN http' = IF gate.calls[Len(gate.calls)] = NoError
                  THEN [http EXCEPT !.pos = @ + 1,
                                    !.ran = Append(@, "requireAuth"),
                                    !.authNext = gate.calls,
                                    !.auth = gate.auth]
                  ELSE [Fail("requireAuth", gate.calls[Len(gate.calls)])
                           EXCEPT !.authNext = gate.calls, !.auth = gate.auth]
    /\ UNCHANGED <<now, jwtSecret, users, expVars, catVars, tagVars, restVars>>

\* What multer reports for the multipart body: nothing, one of its limits, a
\* file type the filter refuses, or another failure of the upload.
MulterOutcomes == {"none", "LIMIT_FILE_SIZE", "LIMIT_FILE_COUNT", "MulterError", "fileFilter"}

uploadMiddleware(outcome) ==
    CASE outcome = "none" -> NoError
      [] outcome = "LIMIT_FILE_SIZE" ->
            AppError(400, "BAD_REQUEST", <<"Each image must be 5MB or smaller">>)
      [] outcome = "LIMIT_FILE_COUNT" ->
            AppError(400, "BAD_REQUEST", <<"You can upload up to 10 images at once">>)
      [] outcome = "MulterError" -> AppError(400, "BAD_REQUEST", <<"error.message">>)
      [] outcome = "fileFilter" ->
            AppError(400, "BAD_REQUEST", <<"Only JPG, PNG, WEBP, and GIF are allowed">>)

RunUploadMiddleware ==
    /\ http.phase = "running"
    /\ Handler = "uploadMiddleware"
    /\ \E outcome \in MulterOutcomes :
        http' = IF uploadMiddleware(outcome) = NoError
                THEN [http EXCEPT !.pos = @ + 1, !.ran = Append(@, "uploadMiddleware")]
                ELSE Fail("uploadMiddleware", uploadMiddleware(outcome))
    /\ UNCHANGED <<now, jwtSecret, users, expVars, catVars, tagVars, restVars>>

RunNotFound ==
    /\ http.phase = "running"
    /\ Handler = "notFound"
    /\ http' = Fail("notFound", AppError(404, "NOT_FOUND", <<"Route not found">>))
    /\ UNCHANGED <<now, jwtSecret, users, expVars, catVars, tagVars, restVars>>

RunLogin ==
    /\ http.phase = "running"
    /\ Handler = "login"
    /\ LET out == login(http.req.body, users, jwtSecret, now)
       IN http' = [http EXCEPT !.phase = "done",
                               !.ran = IF out.resp.code = "OK" THEN Append(@, "login")
                                       ELSE @ \o <<"login", "errorHandler">>,
                               !.resp = out.resp,
                               !.payload = out.payload]
    /\ UNCHANGED <<now, jwtSecret, users, expVars, catVars, tagVars, restVars>>

\* A resource controller runs; what it answers is the controllers' business.
RunController ==
    /\ http.phase = "running"
    /\ Handler \notin Middleware \cup {"login"}
    /\ http' = [http EXCEPT !.phase = "done",
                            !.ran = Append(@, Handler),
                            !.resp = [status |-> 0, code |-> "CONTROLLER", message |-> <<Handler>>]]
    /\ UNCHANGED <<now, jwtSecret, users, expVars, catVars, tagVars, restVars>>

Done ==
    /\ http.phase = "done"
    /\ http' = HttpIdle
    /\ UNCHANGED <<now, jwtSecret, users, expVars, catVars, tagVars, restVars>>

Tick ==
    /\ http.phase = "idle"
    /\ now < MaxNow
    /\ now' = now + 1
    /\ UNCHANGED <<jwtSecret, users, http, expVars, catVars, tagVars, restVars>>

\* A redeploy with another JWT_SECRET, or, through the serverless entry
\* that does not check the configuration, without one.
RotateSecret ==
    /\ http.phase = "idle"
    /\ \E k \in (Secrets \cup {NoSecret}) \ {jwtSecret} : jwtSecret' = k
    /\ UNCHANGED <<now, users, http, expVars, catVars, tagVars, restVars>>

\* The seed has run and index.ts has found JWT_SECRET set
\* (assertJwtConfiguration).
InitAuth ==
    /\ now = 0
    /\ jwtSecret \in Secrets
    /\ \E env \in SeedEnvs : users = upsertSeedAdminUser(env)
    /\ http = HttpIdle

NextHttp ==
    \/ ReceiveRequest
    \/ RunRequireAuth
    \/ RunUploadMiddleware
    \/ RunNotFound
    \/ RunLogin
    \/ RunController
    \/ Done
    \/ Tick
    \/ RotateSecret

----------------------------------------------------------------------------
(* Tag, highlight and tech-tag lists: a raw field value and the validator   *)
(* a controller applies to it.                                              *)

MaxTags == 3

Run(n) == [i \in 1..n |-> "a"]

\* Entries of a submitted list: spellings that differ in case or padding,
\* entries at and over the two length limits, a blank one and a non-string.
TagEntries ==
    {JsStr(<<"a">>), JsStr(<<"A">>), JsStr(<<" ", "a", " ">>), JsStr(<<"b">>),
     JsStr(<<"A", "b">>), JsStr(<<"a", "B">>), JsStr(<<" ">>), JsNum,
     JsStr(<<" ">> \o Run(40) \o <<" ">>), JsStr(Run(41)), JsStr(Run(201))}

TagLists == UNION {[1..n -> TagEntries] : n \in 0..MaxTags}

TagValues == {JsArray(items) : items \in TagLists} \cup {Undefined}

NoTagResult == [validator |-> "none", out |-> Ok(<<>>)]

ValidateTags ==
    /\ tagResult = NoTagResult
    /\ tagResult' = [validator |-> "validateTags", out |-> validateTags(tagValue, "tags")]
    /\ UNCHANGED <<tagValue, expVars, catVars, authVars, restVars>>

ValidateHighlights ==
    /\ tagResult = NoTagResult
    /\ tagResult' = [validator |-> "validateHighlights",
                     out |-> validateHighlights(tagValue, "highlights")]
    /\ UNCHANGED <<tagValue, expVars, catVars, authVars, restVars>>

ValidateTechTags ==
    /\ tagResult = NoTagResult
    /\ tagResult' = [validator |-> "validateTechTags",
                     out |-> validateTechTags(tagValue, "techTags")]
    /\ UNCHANGED <<tagValue, expVars, catVars, authVars, restVars>>

NextTags ==
    \/ ValidateTags
    \/ ValidateHighlights
    \/ ValidateTechTags

----------------------------------------------------------------------------
(* Numbers.  A JavaScript number is an IEEE-754 double: an integer is held   *)
(* exactly only up to 53 significant bits.  Magnitudes are sequences of      *)
(* bits, least significant first, without leading zeros, so that the         *)
(* rounding of every arithmetic result is computed.                          *)

RECURSIVE BitsOf(_)
BitsOf(n) == IF n = 0 THEN <<>> ELSE <<n % 2>> \o BitsOf(n \div 2)

RECURSIVE NatOf(_)
NatOf(bits) == IF Len(bits) = 0 THEN 0 ELSE Head(bits) + 2 * NatOf(Tail(bits))

\* bits * k + carry, for a small k
RECURSIVE MulAdd(_, _, _)
MulAdd(bits, k, carry) ==
    IF Len(bits) = 0 THEN BitsOf(carry)
    ELSE <<(Head(bits) * k + carry) % 2>>
            \o MulAdd(Tail(bits), k, (Head(bits) * k + carry) \div 2)

\* bits - 1, for bits > 0
RECURSIVE Decrement(_)
Decrement(bits) ==
    IF Head(bits) = 1
    THEN (IF Len(bits) = 1 THEN <<>> ELSE <<0>> \o Tail(bits))
    ELSE <<1>> \o Decrement(Tail(bits))

\* bits mod k, for a small k > 0
RECURSIVE ModSmall(_, _)
ModSmall(bits, k) ==
    IF Len(bits) = 0 THEN 0 ELSE (2 * ModSmall(Tail(bits), k) + Head(bits)) % k

\* The double nearest to an integer, ties to the even significand.
RoundToDouble(bits) ==
    LET dropped == Len(bits) - 53
        kept == SubSeq(bits, dropped + 1, Len(bits))
        half == bits[dropped] = 1
        sticky == \E i \in 1..(dropped - 1) : bits[i] = 1
        up == half /\ (sticky \/ kept[1] = 1)
    IN IF dropped <= 0 THEN bits
       ELSE [i \in 1..dropped |-> 0] \o (IF up THEN MulAdd(kept, 1, 1) ELSE kept)

NaN == [kind |-> "NaN", neg |-> FALSE, int |-> <<>>, frac |-> FALSE]

\* A finite number: sign, integer part, and whether a fraction follows it.
Finite(neg, int, frac) == [kind |-> "finite", neg |-> neg, int |-> int, frac |-> frac]

RECURSIVE DecimalValue(_, _)
DecimalValue(digits, acc) ==
    IF Len(digits) = 0 THEN acc
    ELSE DecimalValue(Tail(digits), MulAdd(acc, 10, DigitValue(Head(digits))))

\* Number(string) for decimal literals: optional blanks, sign, digits,
\* fraction; the empty string is 0 and any other text is NaN.
StringToNumber(s) ==
    LET t == Trim(s)
        signed == Len(t) > 0 /\ t[1] \in {"-", "+"}
        body == IF signed THEN Tail(t) ELSE t
        parts == SplitOn(body, ".")
        int == parts[1]
        frac == IF Len(parts) = 2 THEN parts[2] ELSE <<>>
        wellFormed ==
            /\ Len(parts) \in {1, 2}
            /\ Len(int) + Len(frac) > 0
            /\ \A i \in 1..Len(int) : int[i] \in Digits
            /\ \A i \in 1..Len(frac) : frac[i] \in Digits
    IN IF Len(t) = 0 THEN Finite(FALSE, <<>>, FALSE)
       ELSE IF ~wellFormed THEN NaN
       ELSE Finite(signed /\ t[1] = "-",
                   RoundToDouble(DecimalValue(int, <<>>)),
                   \E i \in 1..Len(frac) : frac[i] # "0")

\* Array.prototype.toString: the entries joined by commas
RECURSIVE JoinEntries(_)
JoinEntries(items) ==
    IF Len(items) = 0 THEN <<>>
    ELSE IF Len(items) = 1 THEN Head(items).s
    ELSE Head(items).s \o <<",">> \o JoinEntries(Tail(items))

\* Number(value) for a query-string value: a string or an array of strings.
ToNumber(value) ==
    IF value.t = "string" THEN StringToNumber(value.s)
    ELSE IF value.t = "array" THEN StringToNumber(JoinEntries(value.items))
    ELSE NaN

IsInteger(n) == n.kind = "finite" /\ ~n.frac

\* n < k and n > k for a small non-negative integer k
LessThan(n, k) ==
    n.kind = "finite" /\ (n.neg \/ (Len(n.int) <= 8 /\ NatOf(n.int) < k))

GreaterThan(n, k) ==
    /\ n.kind = "finite"
    /\ ~n.neg
    /\ (Len(n.int) > 8 \/ NatOf(n.int) > k \/ (NatOf(n.int) = k /\ n.frac))

----------------------------------------------------------------------------
(* Pagination (utils/validators.ts) *)

parsePagination(query) ==
    LET page == IF query.page = Undefined THEN Finite(FALSE, BitsOf(1), FALSE)
                ELSE ToNumber(query.page)
        limit == IF query.limit = Undefined THEN Finite(FALSE, BitsOf(10), FALSE)
                 ELSE ToNumber(query.limit)
    IN IF ~IsInteger(page) \/ LessThan(page, 1)
       THEN Throw(AppError(400, "BAD_REQUEST", <<"page must be an integer >= 1">>))
       ELSE IF ~IsInteger(limit) \/ LessThan(limit, 1) \/ GreaterThan(limit, 100)
       THEN Throw(AppError(400, "BAD_REQUEST", <<"limit must be an integer between 1 and 100">>))
       ELSE Ok([page |-> page.int,
                limit |-> NatOf(limit.int),
                skip |-> RoundToDouble(MulAdd(RoundToDouble(Decrement(page.int)),
                                              NatOf(limit.int), 0))])

\* 2^53 and 2^53 + 1 in decimal
TwoTo53 == <<"9", "0", "0", "7", "1", "9", "9", "2", "5", "4", "7", "4", "0", "9", "9", "2">>
TwoTo53Plus1 == <<"9", "0", "0", "7", "1", "9", "9", "2", "5", "4", "7", "4", "0", "9", "9", "3">>

\* page and limit as a client may send them, each with what it denotes: no
\* number, a fraction, or a whole number below 1, from 1 to 100, or above 100.
Sent(raw, denotes) == [raw |-> raw, denotes |-> denotes]

Omitted == Sent(Undefined, "omitted")

PagesSent ==
    {Omitted,
     Sent(JsStr(<<"1">>), "1..100"), Sent(JsStr(<<"2">>), "1..100"),
     Sent(JsStr(<<" ", "3", " ">>), "1..100"), Sent(JsStr(<<"0">>), "below 1"),
     Sent(JsStr(<<"-", "1">>), "below 1"), Sent(JsStr(<<"1", ".", "5">>), "fraction"),
     Sent(JsStr(<<"2", ".", "0">>), "1..100"), Sent(JsStr(<<"a", "b">>), "no number"),
     Sent(JsStr(<<"1", "2", "0">>), "above 100"),
     Sent(JsArray(<<JsStr(<<"4">>)>>), "1..100"),
     Sent(JsArray(<<JsStr(<<"1">>), JsStr(<<"2">>)>>), "no number"),
     Sent(JsStr(TwoTo53), "above 100"), Sent(JsStr(TwoTo53Plus1), "above 100")}

LimitsSent ==
    {Omitted,
     Sent(JsStr(<<"1">>), "1..100"), Sent(JsStr(<<"3">>), "1..100"),
     Sent(JsStr(<<"1", "0">>), "1..100"), Sent(JsStr(<<"1", "0", "0">>), "1..100"),
     Sent(JsStr(<<"1", "0", "1">>), "above 100"), Sent(JsStr(<<"0">>), "below 1"),
     Sent(JsStr(<<"2", ".", "5">>), "fraction"), Sent(JsStr(<<"a">>), "no number"),
     Sent(JsStr(<<"1", "0", "0", ".", "5">>), "fraction")}

NoPageResult == [called |-> FALSE, out |-> Ok(<<>>)]

ParsePagination ==
    /\ ~pageResult.called
    /\ pageResult' = [called |-> TRUE,
                      out |-> parsePagination([page |-> pageQuery.page.raw,
                                               limit |-> pageQuery.limit.raw])]
    /\ UNCHANGED <<pageQuery, expVars, catVars, authVars, tagVars, errVars, laterVars>>

----------------------------------------------------------------------------
(* Two failing requests at the terminal error handler *)

\* uploadImages when object storage reports an error for a file
uploadFailure(storageMessage) ==
    AppErrorWith(500, "INTERNAL_ERROR", <<"Failed to upload image">>, JsStr(storageMessage))

StorageMessages == {<<"bucket quota exceeded">>, <<"connect ECONNREFUSED 10.0.0.7">>}

PrismaMetas ==
    {[t |-> "object", target |-> <<"Category_name_key">>],
     [t |-> "object", target |-> <<"Blog_categoryId_fkey">>]}

\* What can reach the handler: an oversized body, AppErrors with and without
\* details, known ORM errors, other Errors, and a thrown value that is no Error.
\* An AppError that was given a type property.
TypedAppError(type) ==
    [kind |-> "AppError", statusCode |-> 413, code |-> "PAYLOAD_TOO_LARGE",
     message |-> <<"request entity too large">>, type |-> type]

ThrownErrors ==
    {[kind |-> "TooLarge"],
     AppError(400, "BAD_REQUEST", <<"title is required">>),
     [kind |-> "Thrown"],
     TypedAppError("entity.too.large"), TypedAppError("entity.parse.failed")}
    \cup {uploadFailure(m) : m \in StorageMessages}
    \cup {PrismaErrorWith(code, meta) :
            code \in {"P2002", "P2003", "P2025", "P2000", "P2034"}, meta \in PrismaMetas}
    \cup {[kind |-> "Error", message |-> m] : m \in StorageMessages}

NodeEnvs == {"production", "development", "unset"}

NotResponded == [status |-> 0, code |-> "NONE", message |-> <<>>, details |-> Undefined]

HandleError(i) ==
    /\ responded[i] = NotResponded
    /\ responded' = [responded EXCEPT ![i] = errorResponse(thrown[i], nodeEnv)]
    /\ UNCHANGED <<nodeEnv, thrown, expVars, catVars, authVars, tagVars, pageVars, laterVars>>

HandleErrors == \E i \in {1, 2} : HandleError(i)

----------------------------------------------------------------------------
(* Image upload: multer, then uploadImages, file by file *)

MAX_FILES == 10

MAX_FILES_PER_REQUEST == 10

\* The longest file list a request carries.
MaxSent == 11

ALLOWED_MIME_TYPES == {"image/jpeg", "image/png", "image/webp", "image/gif"}

ALLOWED_FOLDERS == {<<"p", "r", "o", "j", "e", "c", "t", "s">>, <<"b", "l", "o", "g", "s">>}

\* size is "empty" for a zero-length buffer, "large" above 5MB, else "small".
File(mimetype, size) == [mimetype |-> mimetype, size |-> size]

\* What multer reports for the files of a multipart body, reading them in order:
\* the file after the tenth ends the parse, the filter sees a file before
\* its bytes are read, and the size limit is hit while they are.
RECURSIVE multer(_, _)
multer(files, i) ==
    IF i > Len(files) THEN "none"
    ELSE IF i > MAX_FILES THEN "LIMIT_FILE_COUNT"
    ELSE IF files[i].mimetype \notin ALLOWED_MIME_TYPES THEN "fileFilter"
    ELSE IF files[i].size = "large" THEN "LIMIT_FILE_SIZE"
    ELSE multer(files, i + 1)

StorageEnvValues == {"unset", "placeholder", "set"}

getStorageConfig(env) ==
    IF env.url = "unset"
    THEN Throw([kind |-> "Error", message |-> <<"SUPABASE_URL is not configured">>])
    ELSE IF env.key = "unset"
    THEN Throw([kind |-> "Error", message |-> <<"SUPABASE_SERVICE_ROLE_KEY is not configured">>])
    ELSE IF env.url = "placeholder"
    THEN Throw([kind |-> "Error", message |-> <<"SUPABASE_URL is still a placeholder value">>])
    ELSE IF env.key = "placeholder"
    THEN Throw([kind |-> "Error",
                message |-> <<"SUPABASE_SERVICE_ROLE_KEY is still a placeholder value">>])
    ELSE Ok(env)

parseUploadFolderAnyName(value) ==
    IF IsString(value) /\ Len(Trim(value.s)) > 0 THEN Ok(JsStr(Trim(value.s)))
    ELSE Throw(AppError(400, "BAD_REQUEST", <<"folder", " is required">>))

parseUploadFolder(value) ==
    LET folder == validateRequiredString(value, "folder")
    IN IF ~folder.ok THEN folder
       ELSE IF folder.v.s \notin ALLOWED_FOLDERS
       THEN Throw(AppError(400, "BAD_REQUEST", <<"folder must be either projects or blogs">>))
       ELSE folder

\* uploadImages up to its loop: the folder, the file count, the storage client.
uploadImagesBegin(body, files, env) ==
    LET folder == parseUploadFolder(body.folder)
    IN IF ~folder.ok THEN folder
       ELSE IF Len(files) < 1 \/ Len(files) > MAX_FILES_PER_REQUEST
       THEN Throw(AppError(400, "BAD_REQUEST", <<"Upload between 1 and 10 images">>))
       ELSE IF ~getStorageConfig(env).ok THEN getStorageConfig(env)
       ELSE folder

\* The checks of one file before its upload call.
uploadImagesFile(file) ==
    IF file.size = "empty"
    THEN Throw(AppError(400, "BAD_REQUEST", <<"Uploaded file is empty">>))
    ELSE IF file.size = "large"
    THEN Throw(AppError(400, "BAD_REQUEST", <<"Each image must be 5MB or smaller">>))
    ELSE Ok(file)

\* What object storage does with one upload call: it stores the object and
\* getPublicUrl yields its URL, it stores the object and no URL comes back, or
\* it reports an error and stores nothing.
StorageOutcomes ==
    {[stored |-> TRUE, publicUrl |-> TRUE, message |-> <<>>],
     [stored |-> TRUE, publicUrl |-> FALSE, message |-> <<>>]}
    \cup {[stored |-> FALSE, publicUrl |-> FALSE, message |-> m] : m \in StorageMessages}

NotAnswered == [status |-> 0, body |-> [pending |-> TRUE]]

ErrorBody(error) ==
    [status |-> errorHandler(error).status,
     body |-> [error |-> [code |-> errorHandler(error).code,
                          message |-> errorHandler(error).message]]]

UploadIdle == [pc |-> "idle", files |-> <<>>, next |-> 1, links |-> <<>>, response |-> NotAnswered]

Respond(run, response) == [run EXCEPT !.pc = "done", !.response = response]

uploadImagesResumeSkippingFailed(run, outcome) ==
    IF outcome.stored /\ outcome.publicUrl
    THEN [run EXCEPT !.pc = "loop", !.next = @ + 1, !.links = Append(@, run.next)]
    ELSE [run EXCEPT !.pc = "loop", !.next = @ + 1]

\* uploadImages resumed after the await of the upload of file run.next.
uploadImagesResume(run, outcome) ==
    IF ~outcome.stored
    THEN Respond(run, ErrorBody(uploadFailure(outcome.message)))
    ELSE IF ~outcome.publicUrl
    THEN Respond(run, ErrorBody(AppError(500, "INTERNAL_ERROR",
                                        <<"Failed to resolve uploaded image URL">>)))
    ELSE [run EXCEPT !.pc = "loop", !.next = @ + 1, !.links = Append(@, run.next)]

NotUpload == <<expVars, catVars, authVars, tagVars, pageVars, errVars, crudVars, proc,
               moreVars>>

RunMulter ==
    /\ uploadRun.pc = "idle"
    /\ uploadRun' =
          LET outcome == multer(uploadReq.files, 1)
          IN IF uploadMiddleware(outcome) = NoError
             THEN [uploadRun EXCEPT !.pc = "uploadImages", !.files = uploadReq.files]
             ELSE Respond(uploadRun, ErrorBody(uploadMiddleware(outcome)))
    /\ UNCHANGED <<storageEnv, uploadReq, storageCalls, bucket, NotUpload>>

UploadImagesBegin ==
    /\ uploadRun.pc = "uploadImages"
    /\ uploadRun' =
          LET begun == uploadImagesBegin(uploadReq.body, uploadRun.files, storageEnv)
          IN IF begun.ok THEN [uploadRun EXCEPT !.pc = "loop"]
             ELSE Respond(uploadRun, ErrorBody(begun.err))
    /\ UNCHANGED <<storageEnv, uploadReq, storageCalls, bucket, NotUpload>>

\* One turn of the loop up to the await, or the response after the last file.
UploadImagesLoop ==
    /\ uploadRun.pc = "loop"
    /\ IF uploadRun.next > Len(uploadRun.files)
       THEN /\ uploadRun' = Respond(uploadRun, [status |-> 200, body |-> [links |-> uploadRun.links]])
            /\ UNCHANGED storageCalls
       ELSE LET checked == uploadImagesFile(uploadRun.files[uploadRun.next])
            IN IF checked.ok
               THEN /\ uploadRun' = [uploadRun EXCEPT !.pc = "upload"]
                    /\ storageCalls' = Append(storageCalls, uploadRun.next)
               ELSE /\ uploadRun' = Respond(uploadRun, ErrorBody(checked.err))
                    /\ UNCHANGED storageCalls
    /\ UNCHANGED <<storageEnv, uploadReq, bucket, NotUpload>>

\* Object storage completes the call and uploadImages continues after the await.
UploadImagesResume ==
    /\ uploadRun.pc = "upload"
    /\ \E outcome \in StorageOutcomes :
          /\ bucket' = IF outcome.stored THEN Append(bucket, uploadRun.next) ELSE bucket
          /\ uploadRun' = uploadImagesResume(uploadRun, outcome)
    /\ UNCHANGED <<storageEnv, uploadReq, storageCalls, NotUpload>>

NextUpload == RunMulter \/ UploadImagesBegin \/ UploadImagesLoop \/ UploadImagesResume

\* The folder values a request carries.
FoldersSent ==
    {Undefined, JsNum, JsStr(<<>>), JsStr(<<" ">>),
     JsStr(<<"p", "r", "o", "j", "e", "c", "t", "s">>), JsStr(<<"b", "l", "o", "g", "s">>),
     JsStr(<<" ", "b", "l", "o", "g", "s", " ">>), JsStr(<<"B", "l", "o", "g", "s">>),
     JsStr(<<"d", "o", "c", "s">>)}

GoodFile == File("image/png", "small")

OddFiles == {File("image/png", "empty"), File("image/png", "large"), File("text/plain", "small")}

\* File lists of every length up to MaxSent: good files, with at most one odd
\* file among them.
FilesSent ==
    {[i \in 1..n |-> GoodFile] : n \in 0..MaxSent}
    \cup {[i \in 1..n |-> IF i = at THEN odd ELSE GoodFile] :
            n \in 1..MaxSent, at \in 1..MaxSent, odd \in OddFiles}

StorageEnvs ==
    {[url |-> "set", key |-> "set"], [url |-> "unset", key |-> "set"],
     [url |-> "set", key |-> "placeholder"]}

----------------------------------------------------------------------------
(* One get, update or delete request for a row, statement by statement,    *)
(* with the deletes of other requests in between                           *)

MaxProjects == 1

ProjectIds == 1..MaxProjects

CrudResources == {"project", "blog", "category", "experience"}

IdsOf(resource) ==
    CASE resource = "project" -> ProjectIds
      [] resource = "blog" -> BlogIds
      [] resource = "category" -> CatIds
      [] resource = "experience" -> ExpIds

TableOf(resource) ==
    CASE resource = "project" -> projects
      [] resource = "blog" -> blogs
      [] resource = "category" -> categories
      [] resource = "experience" -> experiences

ProjectFields ==
    <<"title", "description", "year", "images", "tags", "links", "client", "duration",
      "overviewHtml", "challengeHtml", "solutionHtml">>

RecognizedFields(resource) ==
    CASE resource = "project" -> ProjectFields
      [] resource = "blog" -> <<"title", "description", "images", "categoryId">>
      [] resource = "category" -> <<"name", "description">>
      [] resource = "experience" -> ExperienceFields

\* updateProject between requireAtLeastOneField and findUnique, for the title
\* and client of a body; the other fields are validated alike.
updateProjectData(body) ==
    LET title == validateOptionalStringWithMaxLength(body.title, "title", 160)
        client == IF body.client = Null THEN Ok(Null)
                  ELSE validateOptionalStringWithMaxLength(body.client, "client", 120)
    IN IF ~title.ok THEN title
       ELSE IF ~client.ok THEN client
       ELSE Ok([title |-> title.v, client |-> client.v])

\* updateBlog between requireAtLeastOneField and findUnique.
updateBlogData(body) ==
    LET title == validateOptionalString(body.title, "title")
        categoryId == validateOptionalString(body.categoryId, "categoryId")
    IN IF ~title.ok THEN title
       ELSE IF ~categoryId.ok THEN categoryId
       ELSE Ok([title |-> title.v, categoryId |-> categoryId.v])

\* updateCategory between requireAtLeastOneField and findUnique.
updateCategoryData(body) ==
    LET name == validateOptionalString(body.name, "name")
        description == IF body.description = Null THEN Ok(Null)
                       ELSE validateOptionalString(body.description, "description")
    IN IF ~name.ok THEN name
       ELSE IF ~description.ok THEN description
       ELSE Ok([name |-> name.v, description |-> description.v])

beforeFindUnrequired(request) ==
    IF request.op # "update" THEN Ok(Undefined)
    ELSE CASE request.resource = "project" -> updateProjectData(request.body)
           [] request.resource = "blog" -> updateBlogData(request.body)
           [] request.resource = "category" -> updateCategoryData(request.body)
           [] request.resource = "experience" -> Ok(Undefined)

\* An update handler up to its first statement: requireAtLeastOneField, and
\* for project, blog and category the validation of the body.  updateExperience
\* validates after its findUnique.
beforeFind(request) ==
    IF request.op # "update" THEN Ok(Undefined)
    ELSE LET required == requireAtLeastOneField(request.body, RecognizedFields(request.resource))
         IN IF ~required.ok THEN required
            ELSE CASE request.resource = "project" -> updateProjectData(request.body)
                   [] request.resource = "blog" -> updateBlogData(request.body)
                   [] request.resource = "category" -> updateCategoryData(request.body)
                   [] request.resource = "experience" -> Ok(Undefined)

NotFound(resource) ==
    AppError(404, "NOT_FOUND",
             CASE resource = "project" -> <<"Project not found">>
               [] resource = "blog" -> <<"Blog not found">>
               [] resource = "category" -> <<"Category not found">>
               [] resource = "experience" -> <<"Experience not found">>)

afterFindAnyRow(request, found) == Ok(Undefined)

\* A handler between its findUnique and its next statement.
afterFind(request, found) ==
    IF found = NoRow THEN Throw(NotFound(request.resource))
    ELSE IF request.op = "delete" /\ request.resource = "category"
            /\ Cardinality(BlogsOf(request.id)) > 0
    THEN Throw(AppError(409, "CONFLICT", <<"Cannot delete category with existing blogs">>))
    ELSE IF request.op = "update" /\ request.resource = "experience"
    THEN updateExperienceData(found, request.body)
    ELSE Ok(Undefined)

\* Mutation of updatedRow: a project's client is written as null when the body
\* does not carry it.
updatedRowClearingClient(request, found, row) ==
    CASE request.resource = "project" ->
            LET data == updateProjectData(request.body).v
            IN [title |-> IF data.title # Undefined THEN data.title.s ELSE row.title,
                client |-> Nullish(data.client, Null)]
      [] request.resource = "blog" ->
            LET data == updateBlogData(request.body).v
            IN [title |-> IF data.title # Undefined THEN data.title.s ELSE row.title,
                categoryId |-> IF data.categoryId # Undefined THEN IdKey(data.categoryId.s)
                               ELSE row.categoryId]
      [] request.resource = "category" ->
            LET data == updateCategoryData(request.body).v
            IN [name |-> IF data.name # Undefined THEN data.name.s ELSE row.name,
                description |-> IF data.description # Undefined THEN data.description
                                ELSE row.description]
      [] request.resource = "experience" ->
            LET data == updateExperienceData(found, request.body).v
                body == request.body
            IN [role |-> IF body.role # Undefined THEN data.role ELSE row.role,
                startMonth |-> IF body.startMonth # Undefined THEN data.startMonth
                               ELSE row.startMonth,
                endMonth |-> IF body.endMonth # Undefined THEN data.endMonth ELSE row.endMonth,
                isCurrent |-> IF body.isCurrent # Undefined THEN data.isCurrent
                              ELSE row.isCurrent]

\* The row prisma update writes over `row`.
updatedRow(request, found, row) ==
    CASE request.resource = "project" ->
            LET data == updateProjectData(request.body).v
            IN [title |-> IF data.title # Undefined THEN data.title.s ELSE row.title,
                client |-> IF data.client # Undefined THEN data.client ELSE row.client]
      [] request.resource = "blog" ->
            LET data == updateBlogData(request.body).v
            IN [title |-> IF data.title # Undefined THEN data.title.s ELSE row.title,
                categoryId |-> IF data.categoryId # Undefined THEN IdKey(data.categoryId.s)
                               ELSE row.categoryId]
      [] request.resource = "category" ->
            LET data == updateCategoryData(request.body).v
            IN [name |-> IF data.name # Undefined THEN data.name.s ELSE row.name,
                description |-> IF data.description # Undefined THEN data.description
                                ELSE row.description]
      [] request.resource = "experience" ->
            LET data == updateExperienceData(found, request.body).v
                body == request.body
            IN [role |-> IF body.role # Undefined THEN data.role ELSE row.role,
                startMonth |-> IF body.startMonth # Undefined THEN data.startMonth
                               ELSE row.startMonth,
                endMonth |-> IF body.endMonth # Undefined THEN data.endMonth ELSE row.endMonth,
                isCurrent |-> IF body.isCurrent # Undefined THEN data.isCurrent
                              ELSE row.isCurrent]

\* What the data store answers to the update or delete statement of a request:
\* P2025 for a row that is gone, P2002 for a taken category name, P2003 for a
\* broken Blog_categoryId_fkey.
writeError(request, found) ==
    LET row == TableOf(request.resource)[request.id]
    IN IF row = NoRow THEN Throw(PrismaError("P2025"))
       ELSE IF request.op = "delete"
       THEN IF request.resource = "category" /\ BlogsOf(request.id) # {}
            THEN Throw(PrismaError("P2003"))
            ELSE Ok(NoRow)
       ELSE LET next == updatedRow(request, found, row)
            IN IF request.resource = "category" /\ NameTaken(next.name, request.id)
               THEN Throw(PrismaError("P2002"))
               ELSE IF request.resource = "blog"
                       /\ (next.categoryId \notin CatIds \/ categories[next.categoryId] = NoRow)
               THEN Throw(PrismaError("P2003"))
               ELSE Ok(next)

SetRow(resource, id, row) ==
    /\ projects' = IF resource = "project" THEN [projects EXCEPT ![id] = row] ELSE projects
    /\ blogs' = IF resource = "blog" THEN [blogs EXCEPT ![id] = row] ELSE blogs
    /\ categories' = IF resource = "category" THEN [categories EXCEPT ![id] = row]
                     ELSE categories
    /\ experiences' = IF resource = "experience" THEN [experiences EXCEPT ![id] = row]
                      ELSE experiences

Tables == <<projects, blogs, categories, experiences>>

NotCrud == <<nextExpId, expLast, nextCatId, nextBlogId, inflight, catLast,
             authVars, tagVars, pageVars, errVars, uploadVars, proc, moreVars>>

CrudResponse(resp) == [status |-> resp.status, code |-> resp.code]

Finish(resp) == [crudRun EXCEPT !.pc = "done", !.response = CrudResponse(resp)]

Issue(run, statement) == [run EXCEPT !.statements = Append(@, statement)]

\* The update or delete statement of the request, and the response after it.
Write ==
    LET result == writeError(crudReq, crudRun.found)
        issued == Issue(crudRun, crudReq.op)
    IN IF result.ok
       THEN /\ SetRow(crudReq.resource, crudReq.id, result.v)
            /\ crudRun' = [issued EXCEPT !.pc = "done",
                              !.response = CrudResponse(
                                  Success(IF crudReq.op = "delete" THEN 204 ELSE 200))]
       ELSE /\ UNCHANGED Tables
            /\ crudRun' = [issued EXCEPT !.pc = "done",
                              !.response = CrudResponse(errorHandler(result.err))]

\* The handler from the arrival of the request to the result of its findUnique.
HandlerToFind ==
    /\ crudRun.pc = "arrived"
    /\ LET before == beforeFind(crudReq)
       IN crudRun' =
             IF ~before.ok THEN Finish(errorHandler(before.err))
             ELSE [Issue(crudRun, "findUnique") EXCEPT
                      !.pc = "found", !.found = TableOf(crudReq.resource)[crudReq.id]]
    /\ UNCHANGED <<Tables, crudReq, NotCrud>>

\* From the result of findUnique to the response, or to the result of the
\* findUnique of ensureCategoryExists in updateBlog.
HandlerAfterFind ==
    /\ crudRun.pc = "found"
    /\ LET after == afterFind(crudReq, crudRun.found)
       IN IF ~after.ok
          THEN crudRun' = Finish(errorHandler(after.err)) /\ UNCHANGED Tables
          ELSE IF crudReq.op = "get"
          THEN crudRun' = Finish(Success(200)) /\ UNCHANGED Tables
          ELSE IF crudReq.op = "update" /\ crudReq.resource = "blog"
                  /\ updateBlogData(crudReq.body).v.categoryId # Undefined
          THEN /\ crudRun' =
                     LET issued == Issue(crudRun, "findUnique")
                         exists == ensureCategoryExists(
                                       updateBlogData(crudReq.body).v.categoryId.s)
                     IN IF exists.ok THEN [issued EXCEPT !.pc = "ensured"]
                        ELSE [issued EXCEPT !.pc = "done",
                                 !.response = CrudResponse(errorHandler(exists.err))]
               /\ UNCHANGED Tables
          ELSE Write
    /\ UNCHANGED <<crudReq, NotCrud>>

\* updateBlog after ensureCategoryExists.
HandlerAfterEnsure ==
    /\ crudRun.pc = "ensured"
    /\ Write
    /\ UNCHANGED <<crudReq, NotCrud>>

\* The delete statement of another request, between two statements of this one.
OtherRequestDeletes ==
    /\ crudRun.pc \in {"found", "ensured"}
    /\ \E resource \in CrudResources :
          \E id \in IdsOf(resource) :
              /\ TableOf(resource)[id] # NoRow
              /\ resource = "category" => BlogsOf(id) = {}
              /\ SetRow(resource, id, NoRow)
    /\ UNCHANGED <<crudReq, crudRun, NotCrud>>

NextCrud == HandlerToFind \/ HandlerAfterFind \/ HandlerAfterEnsure \/ OtherRequestDeletes

ProjectBodies ==
    [title : {Undefined, JsStr(TitleT), JsStr(<<" ">>)}, client : {Undefined, Null}]

\* A body whose only key is none of the recognized fields; the keys it lacks
\* read as undefined.
UnrecognizedOnly ==
    [nickname |-> JsStr(<<"n">>), title |-> Undefined, client |-> Undefined,
     categoryId |-> Undefined, name |-> Undefined, description |-> Undefined,
     role |-> Undefined, startMonth |-> Undefined, endMonth |-> Undefined,
     isCurrent |-> Undefined]

CrudExperienceBodies ==
    {NoBody, CompleteBody,
     [NoBody EXCEPT !.role = JsStr(RoleDev)],
     [NoBody EXCEPT !.endMonth = Null],
     [NoBody EXCEPT !.isCurrent = JsBool(TRUE)],
     [NoBody EXCEPT !.startMonth = JsStr(M2024_02)],
     [CompleteBody EXCEPT !.startMonth = JsStr(BadMonth)]}

CrudBlogBodies ==
    [title : {Undefined, JsStr(TitleT), JsStr(<<" ">>)},
     categoryId : {Undefined} \cup {JsStr(IdString(c)) : c \in CatIds}]

BodiesOf(resource) ==
    {UnrecognizedOnly} \cup
    CASE resource = "project" -> ProjectBodies
      [] resource = "blog" -> CrudBlogBodies
      [] resource = "category" -> CategoryBodies
      [] resource = "experience" -> CrudExperienceBodies

CrudRequest(resource, op, id, body) == [resource |-> resource, op |-> op, id |-> id, body |-> body]

CrudRequests ==
    UNION {{CrudRequest(resource, "update", id, body) :
               id \in IdsOf(resource), body \in BodiesOf(resource)}
           \cup {CrudRequest(resource, op, id, UnrecognizedOnly) :
                    op \in {"get", "delete"}, id \in IdsOf(resource)} :
           resource \in CrudResources}

StoredProject == [title |-> TitleT, client |-> Null]

\* A project stored with a client and a title that no request body carries.
ClientProject == [title |-> <<"u">>, client |-> JsStr(<<"c">>)]

StoredExperience == [role |-> RoleDev, startMonth |-> M2023_12,
                     endMonth |-> JsStr(M2024_02), isCurrent |-> FALSE]

StoredCategory(id) == [name |-> IdString(id), description |-> Null]

CrudArrived(idAbsent) ==
    [pc |-> "arrived", idAbsent |-> idAbsent, found |-> NoRow, statements |-> <<>>,
     response |-> [status |-> 0, code |-> "NONE"]]

----------------------------------------------------------------------------
(* Several DELETE requests for one row (deleteProject, deleteBlog,         *)
(* deleteExperience), statement by statement                               *)

MaxDeleters == 3

DeletedResources == {"project", "blog", "experience"}

DeleterArrived == [pc |-> "arrived", found |-> NoRow, response |-> [status |-> 0, code |-> "NONE"]]

\* n DELETE requests for row 1 of the resource.
Deleters(resource, n) == [resource |-> resource, runs |-> [i \in 1..n |-> DeleterArrived]]

DeleteRequest == CrudRequest(deleters.resource, "delete", 1, UnrecognizedOnly)

NotDeleters == <<nextExpId, expLast, nextCatId, nextBlogId, inflight, catLast,
                 authVars, tagVars, pageVars, errVars, uploadVars, proc,
                 listVars, richVars, call, crudReq, crudRun>>

\* The findUnique of one of the requests.
DeleterFinds(i) ==
    /\ deleters.runs[i].pc = "arrived"
    /\ deleters' = [deleters EXCEPT
                       !.runs[i].pc = "found",
                       !.runs[i].found = TableOf(deleters.resource)[DeleteRequest.id]]
    /\ UNCHANGED <<Tables, NotDeleters>>

\* The request from the result of its findUnique to its response: the 404 it
\* throws, or its delete statement and what the data store answers.
DeleterDeletes(i) ==
    /\ deleters.runs[i].pc = "found"
    /\ LET after == afterFind(DeleteRequest, deleters.runs[i].found)
           result == writeError(DeleteRequest, deleters.runs[i].found)
       IN IF ~after.ok
          THEN /\ deleters' = [deleters EXCEPT
                                  !.runs[i].pc = "done",
                                  !.runs[i].response = CrudResponse(errorHandler(after.err))]
               /\ UNCHANGED Tables
          ELSE IF ~result.ok
          THEN /\ deleters' = [deleters EXCEPT
                                  !.runs[i].pc = "done",
                                  !.runs[i].response = CrudResponse(errorHandler(result.err))]
               /\ UNCHANGED Tables
          ELSE /\ deleters' = [deleters EXCEPT
                                  !.runs[i].pc = "done",
                                  !.runs[i].response = CrudResponse(Success(204))]
               /\ SetRow(deleters.resource, DeleteRequest.id, NoRow)
    /\ UNCHANGED NotDeleters

DeleterFind == \E i \in DOMAIN deleters.runs : DeleterFinds(i)

DeleterDelete == \E i \in DOMAIN deleters.runs : DeleterDeletes(i)

NextDeleters == DeleterFind \/ DeleterDelete

----------------------------------------------------------------------------
(* updateBlog among the suspended requests of the category and blog        *)
(* controllers                                                             *)

\* The update bodies: each names a category, stored or deleted by then.
UpdateBlogBodies == [title : {Undefined}, categoryId : {JsStr(IdString(c)) : c \in CatIds}]

\* The categoryId a suspended request carries, as the request named it.
NamedBy(req) == IF req.categoryId = 0 THEN Undefined ELSE JsStr(IdString(req.categoryId))

\* PATCH /api/blogs/:id up to prisma.blog.findUnique.
updateBlogFind(id, body) ==
    LET required == requireAtLeastOneField(body, RecognizedFields("blog"))
        data == updateBlogData(body)
        failed == IF ~required.ok THEN required
                  ELSE IF ~data.ok THEN data
                  ELSE IF blogs[id] = NoRow THEN Throw(NotFound("blog"))
                  ELSE Ok(Undefined)
    IN IF ~failed.ok
       THEN /\ Answer("updateBlog", id, body.categoryId, errorHandler(failed.err))
            /\ UNCHANGED <<categories, nextCatId, blogs, nextBlogId, inflight>>
       ELSE IF data.v.categoryId # Undefined
       THEN Suspend(Suspended("updateBlogEnsure", id, data.v.title, Undefined,
                              IdKey(data.v.categoryId.s)))
       ELSE Suspend(Suspended("updateBlog", id, data.v.title, Undefined, 0))

updateBlogEnsureSkipped(req) ==
    /\ inflight' = (inflight (-) SetToBag({req}))
                       (+) SetToBag({[req EXCEPT !.op = "updateBlog"]})
    /\ UNCHANGED <<categories, nextCatId, blogs, nextBlogId, catLast>>

\* PATCH /api/blogs/:id: ensureCategoryExists for the categoryId of the body.
updateBlogEnsure(req) ==
    LET exists == ensureCategoryExists(IdString(req.categoryId))
    IN IF ~exists.ok
       THEN /\ Resume(req)
            /\ Answer("updateBlog", req.id, NamedBy(req), errorHandler(exists.err))
            /\ UNCHANGED <<categories, nextCatId, blogs, nextBlogId>>
       ELSE /\ inflight' = (inflight (-) SetToBag({req}))
                              (+) SetToBag({[req EXCEPT !.op = "updateBlog"]})
            /\ UNCHANGED <<categories, nextCatId, blogs, nextBlogId, catLast>>

\* PATCH /api/blogs/:id: prisma.blog.update and the response.
updateBlogWrite(req) ==
    /\ Resume(req)
    /\ IF blogs[req.id] = NoRow
       THEN /\ Answer("updateBlog", req.id, NamedBy(req), errorHandler(PrismaError("P2025")))
            /\ UNCHANGED <<categories, nextCatId, blogs, nextBlogId>>
       ELSE IF req.categoryId # 0
               /\ (req.categoryId \notin CatIds \/ categories[req.categoryId] = NoRow)
       THEN /\ Answer("updateBlog", req.id, NamedBy(req), errorHandler(PrismaError("P2003")))
            /\ UNCHANGED <<categories, nextCatId, blogs, nextBlogId>>
       ELSE /\ blogs' = [blogs EXCEPT ![req.id] =
                   [title |-> IF req.name # Undefined THEN req.name.s ELSE @.title,
                    categoryId |-> IF req.categoryId # 0 THEN req.categoryId
                                   ELSE @.categoryId]]
            /\ Answer("updateBlog", req.id, NamedBy(req), Success(200))
            /\ UNCHANGED <<categories, nextCatId, nextBlogId>>

UpdateBlogFind ==
    /\ \E id \in BlogIds, body \in UpdateBlogBodies : updateBlogFind(id, body)
    /\ UNCHANGED <<expVars, authVars, tagVars, restVars>>
UpdateBlogEnsure ==
    /\ \E req \in SuspendedOn("updateBlogEnsure") : updateBlogEnsure(req)
    /\ UNCHANGED <<expVars, authVars, tagVars, restVars>>
UpdateBlogWrite ==
    /\ \E req \in SuspendedOn("updateBlog") : updateBlogWrite(req)
    /\ UNCHANGED <<expVars, authVars, tagVars, restVars>>

\* Blog creation and update against category deletion.
NextBlogRef ==
    \/ DeleteCategoryFind
    \/ DeleteCategoryWrite
    \/ CreateBlogFind
    \/ CreateBlogWrite
    \/ UpdateBlogFind
    \/ UpdateBlogEnsure
    \/ UpdateBlogWrite

----------------------------------------------------------------------------
(* A list request (listProjects, listBlogs): the count and the findMany of *)
(* its prisma.$transaction batch, with the creates and deletes that other  *)
(* requests commit in between.  The batch names no isolation level, so the *)
(* data store runs it at its default one.                                  *)

MaxListed == 2

\* PostgreSQL's levels: under ReadCommitted every statement of a transaction
\* reads the rows committed when the statement starts, under the other two
\* every statement reads the rows committed when the first one started.
IsolationLevels == {"ReadCommitted", "RepeatableRead", "Serializable"}

ListResources == {"project", "blog"}

TitleAB == <<"a", "B">>

ListedRow(createdAt, title, year, categoryId) ==
    [createdAt |-> createdAt, title |-> title, year |-> year, categoryId |-> categoryId]

EmptyStore == [rows |-> {}, clock |-> 0]

\* String.prototype.includes
Contains(s, sub) ==
    \E i \in 0..(Len(s) - Len(sub)) : SubSeq(s, i + 1, i + Len(sub)) = sub

parseSearch(value) ==
    IF value = Undefined THEN Ok(Undefined)
    ELSE IF ~IsString(value)
    THEN Throw(AppError(400, "BAD_REQUEST", <<"search must be a string">>))
    ELSE Ok(IF Len(Trim(value.s)) = 0 THEN Undefined ELSE JsStr(Trim(value.s)))

\* The first error among the results of the parsers, or the page and the where
\* clause they make.
batchArguments(pagination, search, categoryId) ==
    IF ~pagination.ok THEN pagination
    ELSE IF ~search.ok THEN search
    ELSE IF ~categoryId.ok THEN categoryId
    ELSE Ok([page |-> NatOf(pagination.v.page), limit |-> pagination.v.limit,
             skip |-> NatOf(pagination.v.skip),
             where |-> [search |-> search.v, categoryId |-> categoryId.v]])

\* A list handler up to its batch: the page and the where clause, or the error
\* thrown.
listArguments(resource, query) ==
    batchArguments(parsePagination(query), parseSearch(query.search),
                   IF resource = "project" \/ query.categoryId = Undefined
                   THEN Ok(Undefined)
                   ELSE validateRequiredString(query.categoryId, "categoryId"))

\* where: title contains search, case-insensitively, and categoryId equals.
Matches(row, where) ==
    /\ where.search # Undefined
          => Contains(ToLowerCase(row.title), ToLowerCase(where.search.s))
    /\ where.categoryId # Undefined => row.categoryId = where.categoryId.s

Matching(rows, where) == {row \in rows : Matches(row, where)}

\* orderBy: projects by year desc, then createdAt desc; blogs by createdAt desc.
ComesBefore(resource, a, b) ==
    IF resource = "project" /\ a.year # b.year THEN a.year > b.year
    ELSE a.createdAt > b.createdAt

RECURSIVE Ordered(_, _)
Ordered(resource, rows) ==
    IF rows = {} THEN <<>>
    ELSE LET first == CHOOSE a \in rows : \A b \in rows \ {a} : ComesBefore(resource, a, b)
         IN <<first>> \o Ordered(resource, rows \ {first})

\* skip and take of findMany
Page(ordered, skip, take) ==
    SubSeq(ordered, skip + 1, IF skip + take < Len(ordered) THEN skip + take ELSE Len(ordered))

count(rows, where) == Cardinality(Matching(rows, where))

findMany(resource, rows, where, skip, take) ==
    Page(Ordered(resource, Matching(rows, where)), skip, take)

ListRequest(resource, query) == [resource |-> resource, query |-> query]

NoQuery == [page |-> Undefined, limit |-> Undefined, search |-> Undefined,
            categoryId |-> Undefined]

ListIdle ==
    [pc |-> "idle", counted |-> {}, total |-> 0, data |-> <<>>,
     response |-> [status |-> 0, code |-> "NONE"]]

ListResponse(resp) == [status |-> resp.status, code |-> resp.code]

\* The rows a statement of the batch reads: `first` are the rows the first
\* statement of the transaction read.
Snapshot(first) == IF isolation = "ReadCommitted" THEN listStore.rows ELSE first

NotList == <<expVars, catVars, authVars, tagVars, pageVars, errVars, uploadVars, crudVars,
             proc, richVars, call, deleters>>

\* The run once the arguments are parsed and count has answered.
afterCount(arguments) ==
    IF ~arguments.ok
    THEN [listRun EXCEPT !.pc = "done",
                         !.response = ListResponse(errorHandler(arguments.err))]
    ELSE [listRun EXCEPT !.pc = "counted",
                         !.counted = listStore.rows,
                         !.total = count(listStore.rows, arguments.v.where)]

\* The run once findMany has answered and the response is written.
afterFindMany(arguments) ==
    [listRun EXCEPT
        !.pc = "done",
        !.data = findMany(listReq.resource, Snapshot(listRun.counted),
                          arguments.where, arguments.skip, arguments.limit),
        !.response = ListResponse(Success(200))]

\* The handler from the arrival of the request to the result of count.
ListCount ==
    /\ listRun.pc = "arrived"
    /\ listRun' = afterCount(listArguments(listReq.resource, listReq.query))
    /\ UNCHANGED <<isolation, listStore, listReq, NotList>>

\* findMany, the second statement of the batch, and the response.
ListFindMany ==
    /\ listRun.pc = "counted"
    /\ listRun' = afterFindMany(listArguments(listReq.resource, listReq.query).v)
    /\ UNCHANGED <<isolation, listStore, listReq, NotList>>

\* The insert a create request commits.
OtherRequestCreates ==
    /\ listRun.pc \in {"arrived", "counted"}
    /\ listStore.clock < MaxListed
    /\ \E title \in {TitleAB, TitleT}, year \in {2023, 2024},
          categoryId \in {IdString(1), IdString(2)} :
          /\ listReq.resource = "blog" => year = 2023
          /\ listReq.resource = "project" => categoryId = IdString(1)
          /\ listStore' = [rows |-> listStore.rows
                                      \cup {ListedRow(listStore.clock + 1, title, year,
                                                      categoryId)},
                           clock |-> listStore.clock + 1]
    /\ UNCHANGED <<isolation, listReq, listRun, NotList>>

\* The delete a delete request commits.
OtherRequestDeletesListed ==
    /\ listRun.pc \in {"arrived", "counted"}
    /\ \E row \in listStore.rows :
          listStore' = [listStore EXCEPT !.rows = @ \ {row}]
    /\ UNCHANGED <<isolation, listReq, listRun, NotList>>

NextList == ListCount \/ ListFindMany \/ OtherRequestCreates \/ OtherRequestDeletesListed

ListQueries ==
    [page : {Undefined, JsStr(<<"2">>)},
     limit : {Undefined, JsStr(<<"1">>)},
     search : {Undefined, JsStr(<<"b", " ">>), JsNum},
     categoryId : {Undefined, JsStr(IdString(1))}]

ListRequests ==
    {ListRequest(resource, query) : resource \in ListResources, query \in ListQueries}

----------------------------------------------------------------------------
(* Rich text (utils/html.ts and the project and experience controllers).   *)
(* An HTML string is the sequence of the text runs and tags it parses to;  *)
(* sanitize-html walks that sequence.                                       *)

ALLOWED_TAGS ==
    {"p", "br", "h2", "h3", "ul", "ol", "li", "strong", "em", "blockquote", "code", "pre", "a"}

ALLOWED_ATTRIBUTES(tag) == IF tag = "a" THEN {"href", "target", "rel"} ELSE {}

ALLOWED_SCHEMES == {<<"h", "t", "t", "p">>, <<"h", "t", "t", "p", "s">>,
                    <<"m", "a", "i", "l", "t", "o">>}

\* sanitize-html drops the content of these tags along with the tags.
NonTextTags == {"script", "style", "textarea", "option"}

TextRun(s) == [k |-> "text", name |-> s, attrs |-> {}]
OpenTag(name, attrs) == [k |-> "open", name |-> name, attrs |-> attrs]
CloseTag(name) == [k |-> "close", name |-> name, attrs |-> {}]
Attr(name, value) == [name |-> name, value |-> value]

\* A string value that holds HTML: what it parses to, and its length.
HtmlStr(tokens, length) == [t |-> "string", tokens |-> tokens, length |-> length]

SchemeChars ==
    {"a", "b", "c", "d", "e", "f", "g", "h", "i", "j", "k", "l", "m", "n", "o", "p", "q",
     "r", "s", "t", "u", "v", "w", "x", "y", "z"} \cup Digits \cup {".", "-", "+"}

\* naughtyHref: a URL with a scheme outside the allowed ones; a URL without a
\* scheme is relative and passes.
naughtyHref(value) ==
    LET scheme == ToLowerCase(Head(SplitOn(value, ":")))
    IN /\ \E i \in 1..Len(value) : value[i] = ":"
       /\ Len(scheme) > 0
       /\ scheme[1] \notin Digits \cup {".", "-", "+"}
       /\ \A i \in 1..Len(scheme) : scheme[i] \in SchemeChars
       /\ scheme \notin ALLOWED_SCHEMES

RelNoopener == <<"noopener noreferrer">>

\* An allowed tag as it is written out: simpleTransform sets rel on every a,
\* then the attributes outside the allow-list and the naughty hrefs go.
sanitizeTag(tok) ==
    IF tok.k = "close" THEN tok
    ELSE LET transformed ==
                 IF tok.name = "a"
                 THEN {at \in tok.attrs : at.name # "rel"} \cup {Attr("rel", RelNoopener)}
                 ELSE tok.attrs
         IN OpenTag(tok.name,
                    {at \in transformed :
                        /\ at.name \in ALLOWED_ATTRIBUTES(tok.name)
                        /\ at.name = "href" => ~naughtyHref(at.value)})

\* `inside` is the non-text tag whose content is being dropped, or "".
RECURSIVE sanitizeTokens(_, _)
sanitizeTokens(tokens, inside) ==
    IF Len(tokens) = 0 THEN <<>>
    ELSE LET tok == Head(tokens)
             rest == Tail(tokens)
         IN IF inside # ""
            THEN sanitizeTokens(rest, IF tok.k = "close" /\ tok.name = inside
                                      THEN "" ELSE inside)
            ELSE IF tok.k = "text" THEN <<tok>> \o sanitizeTokens(rest, "")
            ELSE IF tok.name \in ALLOWED_TAGS
            THEN <<sanitizeTag(tok)>> \o sanitizeTokens(rest, "")
            ELSE IF tok.k = "open" /\ tok.name \in NonTextTags
            THEN sanitizeTokens(rest, tok.name)
            ELSE sanitizeTokens(rest, "")

\* The sanitized string, as the tokens it parses to.
sanitizeRichHtml(input) == sanitizeTokens(input.tokens, "")

HTML_MAX_LENGTH == 50000

validateRequiredHtmlField(value, fieldName, maxLength) ==
    IF ~IsString(value)
    THEN Throw(AppError(400, "BAD_REQUEST", <<fieldName, " must be a string">>))
    ELSE IF value.length > maxLength
    THEN Throw(AppError(400, "BAD_REQUEST", <<fieldName, " must be 50000 characters or fewer">>))
    ELSE Ok(value)

validateOptionalHtmlField(value, fieldName, maxLength) ==
    IF value = Undefined THEN Ok(Undefined)
    ELSE validateRequiredHtmlField(value, fieldName, maxLength)

RichResources == {"project", "experience"}

RichFields(resource) ==
    IF resource = "project" THEN {"description", "overviewHtml", "challengeHtml", "solutionHtml"}
    ELSE {"summaryHtml"}

RichFieldOrder(resource) ==
    IF resource = "project"
    THEN <<"description", "overviewHtml", "challengeHtml", "solutionHtml">>
    ELSE <<"summaryHtml">>

\* The rich-text validators of a create (required) or update (optional)
\* handler: the validated values, or the error of the first field that fails.
validateRich(resource, body, required) ==
    LET order == RichFieldOrder(resource)
        results == [f \in RichFields(resource) |->
                       IF required
                       THEN validateRequiredHtmlField(body[f], f, HTML_MAX_LENGTH)
                       ELSE validateOptionalHtmlField(body[f], f, HTML_MAX_LENGTH)]
        failing == {i \in 1..Len(order) : ~results[order[i]].ok}
    IN IF failing # {}
       THEN results[order[CHOOSE i \in failing : \A j \in failing : i <= j]]
       ELSE Ok([f \in RichFields(resource) |-> results[f].v])

\* data of prisma.project.create / prisma.experience.create
createRichData(validated) ==
    [f \in DOMAIN validated |-> sanitizeRichHtml(validated[f])]

\* Mutation of updateRichData: overviewHtml and summaryHtml are written as
\* validated.
updateRichDataRaw(validated, row) ==
    [f \in DOMAIN validated |->
        IF validated[f] = Undefined THEN row[f]
        ELSE IF f \in {"overviewHtml", "summaryHtml"} THEN validated[f].tokens
        ELSE sanitizeRichHtml(validated[f])]

\* The row after prisma.project.update / prisma.experience.update.
updateRichData(validated, row) ==
    [f \in DOMAIN validated |->
        IF validated[f] # Undefined THEN sanitizeRichHtml(validated[f]) ELSE row[f]]

RichHandled(op, resource, resp, sent) ==
    [op |-> op, resource |-> resource, status |-> resp.status, code |-> resp.code,
     sent |-> sent]

NotRich == <<expVars, catVars, authVars, tagVars, pageVars, errVars, uploadVars, crudVars,
             proc, listVars, call, deleters>>

Refuse(op, resource, error) ==
    /\ richLast' = RichHandled(op, resource, errorHandler(error), NoRow)
    /\ UNCHANGED <<richStore, richInput>>

\* POST /api/projects, POST /api/experiences
createRich(resource, body) ==
    LET validated == validateRich(resource, body, TRUE)
    IN IF ~validated.ok THEN Refuse("create", resource, validated.err)
       ELSE /\ richStore[resource] = NoRow
            /\ richStore' = [richStore EXCEPT ![resource] = createRichData(validated.v)]
            /\ richInput' = [richInput EXCEPT ![resource] = validated.v]
            /\ richLast' = RichHandled("create", resource, Success(201), richStore'[resource])

\* PATCH /api/projects/:id validates before its findUnique, PATCH
\* /api/experiences/:id after it.
updateRich(resource, body) ==
    LET required == requireAtLeastOneField(body, RecognizedFields(resource))
        validated == validateRich(resource, body, FALSE)
        row == richStore[resource]
    IN IF ~required.ok THEN Refuse("update", resource, required.err)
       ELSE IF resource = "project" /\ ~validated.ok
       THEN Refuse("update", resource, validated.err)
       ELSE IF row = NoRow THEN Refuse("update", resource, NotFound(resource))
       ELSE IF ~validated.ok THEN Refuse("update", resource, validated.err)
       ELSE /\ richStore' = [richStore EXCEPT ![resource] = updateRichData(validated.v, row)]
            /\ richInput' = [richInput EXCEPT ![resource] =
                                [f \in DOMAIN row |->
                                    IF validated.v[f] # Undefined THEN validated.v[f] ELSE @[f]]]
            /\ richLast' = RichHandled("update", resource, Success(200), richStore'[resource])

\* GET /api/projects/:id, GET /api/experiences/:id
getRich(resource) ==
    /\ richLast' = IF richStore[resource] = NoRow
                   THEN RichHandled("get", resource, errorHandler(NotFound(resource)), NoRow)
                   ELSE RichHandled("get", resource, Success(200), richStore[resource])
    /\ UNCHANGED <<richStore, richInput>>

\* DELETE /api/projects/:id, DELETE /api/experiences/:id
deleteRich(resource) ==
    IF richStore[resource] = NoRow THEN Refuse("delete", resource, NotFound(resource))
    ELSE /\ richStore' = [richStore EXCEPT ![resource] = NoRow]
         /\ richInput' = [richInput EXCEPT ![resource] = NoRow]
         /\ richLast' = RichHandled("delete", resource, Success(204), NoRow)

ParagraphHtml == HtmlStr(<<OpenTag("p", {}), TextRun("hi"), CloseTag("p")>>, 9)

ScriptHtml ==
    HtmlStr(<<TextRun("a"), OpenTag("script", {}), TextRun("x()"), CloseTag("script"),
              OpenTag("img", {Attr("onerror", <<"x">>)}), OpenTag("div", {}), TextRun("b"),
              CloseTag("div")>>, 52)

LinkHtml ==
    HtmlStr(<<OpenTag("a", {Attr("href", <<"h", "t", "t", "p", "s", ":", "/", "/", "x">>),
                            Attr("target", <<"_blank">>), Attr("onclick", <<"x">>)}),
              TextRun("l"), CloseTag("a")>>, 52)

DataLinkHtml ==
    HtmlStr(<<OpenTag("a", {Attr("href", <<"d", "a", "t", "a", ":", "x">>),
                            Attr("rel", <<"author">>)}),
              TextRun("l"), CloseTag("a"),
              OpenTag("a", {Attr("href", <<"/", "a", ":", "b">>)}), CloseTag("a")>>, 50)

TooLongHtml == HtmlStr(<<TextRun("long")>>, HTML_MAX_LENGTH + 1)

HtmlInputs == {ParagraphHtml, ScriptHtml, LinkHtml, DataLinkHtml}

RichCreateBodies(resource) ==
    IF resource = "project"
    THEN [description : HtmlInputs \cup {Null}, overviewHtml : HtmlInputs,
          challengeHtml : {ParagraphHtml, ScriptHtml}, solutionHtml : {LinkHtml, Undefined}]
    ELSE [summaryHtml : HtmlInputs \cup {Undefined, Null, TooLongHtml}]

RichUpdateBodies(resource) ==
    IF resource = "project"
    THEN [description : {Undefined, ScriptHtml, TooLongHtml},
          overviewHtml : {Undefined, DataLinkHtml},
          challengeHtml : {Undefined, LinkHtml}, solutionHtml : {Undefined, ScriptHtml}]
    ELSE [summaryHtml : HtmlInputs \cup {Undefined, Null, TooLongHtml}]

CreateRich ==
    /\ \E resource \in RichResources :
          \E body \in RichCreateBodies(resource) : createRich(resource, body)
    /\ UNCHANGED NotRich

UpdateRich ==
    /\ \E resource \in RichResources :
          \E body \in RichUpdateBodies(resource) : updateRich(resource, body)
    /\ UNCHANGED NotRich

GetRich ==
    /\ \E resource \in RichResources : getRich(resource)
    /\ UNCHANGED NotRich

DeleteRich ==
    /\ \E resource \in RichResources : deleteRich(resource)
    /\ UNCHANGED NotRich

NextRich == CreateRich \/ UpdateRich \/ GetRich \/ DeleteRich

----------------------------------------------------------------------------
(* asyncHandler (utils/async-handler.ts) around a controller.  A controller *)
(* is an async function: the statements before its first await run when it *)
(* is called, each await suspends it, a throw anywhere rejects its promise, *)
(* and the catch callback of asyncHandler runs once the promise is         *)
(* rejected.                                                                *)

\* The statements of a controller, in order: "sync" for validators and
\* checks that may throw, "await" for a data-store, storage or bcrypt call that
\* may reject, "respond" for the res.status(...).json / send that ends it.
ControllerSteps ==
    [login |-> <<"sync", "await", "sync", "await", "sync", "respond">>,
     createProject |-> <<"sync", "await", "respond">>,
     getProjectById |-> <<"await", "sync", "respond">>,
     updateProject |-> <<"sync", "await", "sync", "await", "respond">>,
     deleteProject |-> <<"await", "sync", "await", "respond">>,
     updateBlog |-> <<"sync", "await", "sync", "await", "sync", "await", "respond">>,
     uploadImages |-> <<"sync", "sync", "await", "sync", "sync", "await", "sync", "respond">>]

\* What a validator or check throws, and what a rejected call rejects with.
Thrown == {AppError(400, "BAD_REQUEST", <<"title is required">>),
           AppError(404, "NOT_FOUND", <<"Project not found">>)}

Rejections == {PrismaError("P2025"), PrismaError("P2002"),
               [kind |-> "Error", message |-> <<"connect ECONNREFUSED 10.0.0.7">>]}

NotCalled(controller) ==
    [controller |-> controller, pc |-> 0, promise |-> "none", reason |-> NoError,
     raised |-> <<>>, nextCalls |-> <<>>, controllerWrites |-> <<>>, handlerWrites |-> <<>>]

\* The statement the controller is at.
Statement == ControllerSteps[call.controller][call.pc]

\* An error leaves the async function: its promise is rejected with it.
Reject(error) ==
    [call EXCEPT !.promise = "rejected", !.reason = error, !.raised = Append(@, error)]

\* Mutation of asyncHandler: the promise of the handler is not caught.
asyncHandlerUncaught(promise, reason) == <<>>

\* handler(req, res, next).catch(next): the calls of next.
asyncHandler(promise, reason) ==
    IF promise = "rejected" THEN <<reason>> ELSE <<>>

NotAsync == <<expVars, catVars, authVars, tagVars, pageVars, errVars, uploadVars, crudVars,
              proc, listVars, richVars, deleters>>

\* express calls the wrapped handler.
CallHandler ==
    /\ call.promise = "none"
    /\ call' = [call EXCEPT !.promise = "pending", !.pc = 1]
    /\ UNCHANGED NotAsync

\* A validator or check of the controller runs.
ControllerSync ==
    /\ call.promise = "pending"
    /\ Statement = "sync"
    /\ \/ call' = [call EXCEPT !.pc = @ + 1]
       \/ \E error \in Thrown : call' = Reject(error)
    /\ UNCHANGED NotAsync

\* An awaited call settles and the controller resumes.
ControllerAwait ==
    /\ call.promise = "pending"
    /\ Statement = "await"
    /\ \/ call' = [call EXCEPT !.pc = @ + 1]
       \/ \E error \in Rejections : call' = Reject(error)
    /\ UNCHANGED NotAsync

\* The controller writes its response and returns.
ControllerResponds ==
    /\ call.promise = "pending"
    /\ Statement = "respond"
    /\ call' = [call EXCEPT !.promise = "fulfilled",
                            !.controllerWrites = Append(@, Success(200))]
    /\ UNCHANGED NotAsync

\* The reaction to the rejected promise: next(reason), and express runs the
\* terminal handler for each error passed to next.
CatchRejection ==
    /\ call.promise = "rejected"
    /\ LET calls == asyncHandler(call.promise, call.reason)
       IN call' = [call EXCEPT
                      !.promise = "handled",
                      !.nextCalls = @ \o calls,
                      !.handlerWrites = @ \o [i \in 1..Len(calls) |-> errorHandler(calls[i])]]
    /\ UNCHANGED NotAsync

NextAsync ==
    \/ CallHandler
    \/ ControllerSync
    \/ ControllerAwait
    \/ ControllerResponds
    \/ CatchRejection

----------------------------------------------------------------------------
(* The process: its entry module, then the requests it serves (index.ts,   *)
(* api/index.ts, app.ts)                                                   *)

\* The most requests a process serves.
MaxServed == 2

\* A JWT_SECRET left at the value of a template.
PlaceholderSecret == "placeholder"

Check(check, during) == [check |-> check, during |-> during]

Loaded(entry) ==
    [entry |-> entry, phase |-> "loaded", served |-> 0, checks |-> {},
     last |-> [kind |-> "none", status |-> 0]]

\* What a request of each kind reads of the configuration, and its status:
\* a list request reads none, login signs a token, an upload passes
\* requireAuth with a token and then builds the storage client.
serve(kind, secret, env) ==
    CASE kind = "list" -> [status |-> 200, checks |-> {}]
      [] kind = "login" ->
            [status |-> IF getJwtConfig(secret).ok THEN 200
                        ELSE errorHandler(getJwtConfig(secret).err).status,
             checks |-> {Check("getJwtConfig", "request")}]
      [] kind = "upload" ->
            IF ~getJwtConfig(secret).ok
            THEN [status |-> 401, checks |-> {Check("getJwtConfig", "request")}]
            ELSE LET begun == uploadImagesBegin(
                                  [folder |-> JsStr(<<"b", "l", "o", "g", "s">>)],
                                  <<GoodFile>>, env)
                 IN [status |-> IF begun.ok THEN 200 ELSE errorHandler(begun.err).status,
                     checks |-> {Check("getJwtConfig", "request"),
                                 Check("getStorageConfig", "request")}]

NotProc == <<expVars, catVars, now, users, http, tagVars, pageVars, errVars, uploadReq,
             uploadRun, storageCalls, bucket, crudVars, moreVars>>

\* index.ts: assertJwtConfiguration, then listen; an error thrown by the entry
\* module ends the process.
StartIndex ==
    /\ proc.phase = "loaded"
    /\ proc.entry = "index"
    /\ proc' = [proc EXCEPT !.phase = IF getJwtConfig(jwtSecret).ok THEN "listening"
                                      ELSE "exited",
                            !.checks = @ \cup {Check("getJwtConfig", "start-up")}]
    /\ UNCHANGED <<jwtSecret, storageEnv, NotProc>>

\* api/index.ts: the serverless entry exports the app as it is.
StartServerless ==
    /\ proc.phase = "loaded"
    /\ proc.entry = "serverless"
    /\ proc' = [proc EXCEPT !.phase = "listening"]
    /\ UNCHANGED <<jwtSecret, storageEnv, NotProc>>

Serve ==
    /\ proc.phase = "listening"
    /\ proc.served < MaxServed
    /\ \E kind \in {"list", "login", "upload"} :
          LET served == serve(kind, jwtSecret, storageEnv)
          IN proc' = [proc EXCEPT !.served = @ + 1,
                                  !.checks = @ \cup served.checks,
                                  !.last = [kind |-> kind, status |-> served.status]]
    /\ UNCHANGED <<jwtSecret, storageEnv, NotProc>>

NextBoot == StartIndex \/ StartServerless \/ Serve

----------------------------------------------------------------------------
(* Specifications *)

NoTags == tagValue = Undefined /\ tagResult = NoTagResult

NoErrors ==
    /\ nodeEnv = "production"
    /\ thrown = <<[kind |-> "Thrown"], [kind |-> "Thrown"]>>
    /\ responded = <<NotResponded, NotResponded>>

NoUpload ==
    /\ storageEnv = [url |-> "set", key |-> "set"]
    /\ uploadReq = [body |-> [folder |-> Undefined], files |-> <<>>]
    /\ uploadRun = UploadIdle
    /\ storageCalls = <<>>
    /\ bucket = <<>>

NoCrud ==
    /\ projects = [id \in ProjectIds |-> NoRow]
    /\ crudReq = CrudRequest("project", "get", 1, UnrecognizedOnly)
    /\ crudRun = [CrudArrived(TRUE) EXCEPT !.pc = "idle"]

NoProc == proc = Loaded("index")

NoList ==
    /\ isolation = "ReadCommitted"
    /\ listStore = EmptyStore
    /\ listReq = ListRequest("project", NoQuery)
    /\ listRun = ListIdle

NoRich ==
    /\ richStore = [resource \in RichResources |-> NoRow]
    /\ richInput = [resource \in RichResources |-> NoRow]
    /\ richLast = RichHandled("none", "project", Success(0), NoRow)

NoCall == call = NotCalled("login")

NoDeleters == deleters = Deleters("project", 0)

NoMore == NoList /\ NoRich /\ NoCall /\ NoDeleters

NoLater == NoUpload /\ NoCrud /\ NoProc /\ NoMore

NoPage == pageQuery = [page |-> Omitted, limit |-> Omitted] /\ pageResult = NoPageResult

\* No request in the express stack, before the seed has run.
NoHttp == now = 0 /\ jwtSecret = NoSecret /\ users = {} /\ http = HttpIdle

Idle == InitExp /\ InitCat /\ NoHttp /\ NoTags /\ NoPage /\ NoErrors /\ NoLater

Init == Idle

InitHttp == InitExp /\ InitCat /\ InitAuth /\ NoTags /\ NoPage /\ NoErrors /\ NoLater

\* Every field value a request can carry, before its validator runs.
InitTags ==
    /\ InitExp /\ InitCat /\ NoHttp /\ NoPage /\ NoErrors /\ NoLater
    /\ tagValue \in TagValues /\ tagResult = NoTagResult

\* Every query a list request can carry, before it is parsed.
InitPage ==
    /\ InitExp /\ InitCat /\ NoHttp /\ NoTags /\ NoErrors /\ NoLater
    /\ pageQuery \in [page : PagesSent, limit : LimitsSent]
    /\ pageResult = NoPageResult

\* Any two errors, under any NODE_ENV.
InitErrors ==
    /\ InitExp /\ InitCat /\ NoHttp /\ NoTags /\ NoPage /\ NoLater
    /\ nodeEnv \in NodeEnvs
    /\ thrown \in ThrownErrors \X ThrownErrors
    /\ responded = <<NotResponded, NotResponded>>

\* Every upload request the model sends, past requireAuth, under each storage
\* configuration, with an empty bucket.
InitUpload ==
    /\ InitExp /\ InitCat /\ NoHttp /\ NoTags /\ NoPage /\ NoErrors /\ NoCrud /\ NoProc /\ NoMore
    /\ storageEnv \in StorageEnvs
    /\ uploadReq \in [body : [folder : FoldersSent], files : FilesSent]
    /\ uploadRun = UploadIdle
    /\ storageCalls = <<>>
    /\ bucket = <<>>

SpecUpload == InitUpload /\ [][NextUpload]_vars

\* Every request against every content of the tables it reads: rows present
\* or not, blogs referring to stored categories.
InitCrud ==
    /\ NoHttp /\ NoTags /\ NoPage /\ NoErrors /\ NoUpload /\ NoProc /\ NoMore
    /\ crudReq \in CrudRequests
    /\ projects \in IF crudReq.resource = "project"
                    THEN [ProjectIds -> {NoRow, StoredProject, ClientProject}]
                    ELSE {[id \in ProjectIds |-> NoRow]}
    /\ experiences \in IF crudReq.resource = "experience"
                       THEN [ExpIds -> {NoRow, StoredExperience}]
                       ELSE {[id \in ExpIds |-> NoRow]}
    /\ categories \in IF crudReq.resource \in {"blog", "category"}
                      THEN {[id \in CatIds |-> IF id \in stored THEN StoredCategory(id)
                                                ELSE NoRow] : stored \in SUBSET CatIds}
                      ELSE {[id \in CatIds |-> NoRow]}
    /\ blogs \in [BlogIds -> {NoRow} \cup {[title |-> TitleT, categoryId |-> c] :
                                            c \in {k \in CatIds : categories[k] # NoRow}}]
    /\ nextExpId = MaxExperiences /\ nextCatId = MaxCategories /\ nextBlogId = MaxBlogs
    /\ expLast = ExpHandled("none", 0, NoBody, Success(0))
    /\ inflight = EmptyBag
    /\ catLast = CatHandled("none", 0, Undefined, Success(0))
    /\ crudRun = CrudArrived(TableOf(crudReq.resource)[crudReq.id] = NoRow)

SpecCrud == InitCrud /\ [][NextCrud]_vars

\* A process loaded from either entry module under every environment.
InitBoot ==
    /\ InitExp /\ InitCat /\ NoTags /\ NoPage /\ NoErrors /\ NoCrud /\ NoMore
    /\ now = 0 /\ users = {} /\ http = HttpIdle
    /\ jwtSecret \in {NoSecret, PlaceholderSecret, "k1"}
    /\ storageEnv \in [url : StorageEnvValues, key : StorageEnvValues]
    /\ uploadReq = [body |-> [folder |-> Undefined], files |-> <<>>]
    /\ uploadRun = UploadIdle
    /\ storageCalls = <<>>
    /\ bucket = <<>>
    /\ proc \in {Loaded(entry) : entry \in {"index", "serverless"}}

SpecBoot == InitBoot /\ [][NextBoot]_vars

\* A list request arrives at an empty table, under each isolation level the
\* data store may be configured to default to.
InitList ==
    /\ InitExp /\ InitCat /\ NoHttp /\ NoTags /\ NoPage /\ NoErrors
    /\ NoUpload /\ NoCrud /\ NoProc /\ NoRich /\ NoCall /\ NoDeleters
    /\ isolation \in IsolationLevels
    /\ listStore = EmptyStore
    /\ listReq \in ListRequests
    /\ listRun = [ListIdle EXCEPT !.pc = "arrived"]

SpecList == InitList /\ [][NextList]_vars

InitRich == Idle

\* express calls the wrapped handler of each controller.
InitAsync ==
    /\ InitExp /\ InitCat /\ NoHttp /\ NoTags /\ NoPage /\ NoErrors
    /\ NoUpload /\ NoCrud /\ NoProc /\ NoList /\ NoRich /\ NoDeleters
    /\ call \in {NotCalled(controller) : controller \in DOMAIN ControllerSteps}

SpecAsync == InitAsync /\ [][NextAsync]_vars

\* One stored project, blog or experience, and up to MaxDeleters DELETE
\* requests for it that have arrived.
InitDeleters ==
    /\ NoHttp /\ NoTags /\ NoPage /\ NoErrors /\ NoUpload /\ NoProc
    /\ NoList /\ NoRich /\ NoCall
    /\ \E resource \in DeletedResources, n \in 2..MaxDeleters :
          /\ deleters = Deleters(resource, n)
          /\ projects = [id \in ProjectIds |->
                            IF resource = "project" /\ id = 1 THEN StoredProject ELSE NoRow]
          /\ experiences = [id \in ExpIds |->
                               IF resource = "experience" /\ id = 1 THEN StoredExperience
                               ELSE NoRow]
          /\ categories = [id \in CatIds |->
                              IF resource = "blog" /\ id = 1 THEN StoredCategory(1) ELSE NoRow]
          /\ blogs = [id \in BlogIds |->
                         IF resource = "blog" /\ id = 1
                         THEN [title |-> TitleT, categoryId |-> 1] ELSE NoRow]
    /\ nextExpId = MaxExperiences /\ nextCatId = MaxCategories /\ nextBlogId = MaxBlogs
    /\ expLast = ExpHandled("none", 0, NoBody, Success(0))
    /\ inflight = EmptyBag
    /\ catLast = CatHandled("none", 0, Undefined, Success(0))
    /\ crudReq = CrudRequest("project", "get", 1, UnrecognizedOnly)
    /\ crudRun = [CrudArrived(TRUE) EXCEPT !.pc = "idle"]

SpecDeleters == InitDeleters /\ [][NextDeleters]_vars

SpecRich == InitRich /\ [][NextRich]_vars

SpecErrors == InitErrors /\ [][HandleErrors]_vars

SpecPage == InitPage /\ [][ParsePagination]_vars

SpecTags == InitTags /\ [][NextTags]_vars

SpecHttp == InitHttp /\ [][NextHttp]_vars

SpecExp == Init /\ [][NextExp]_vars

SpecChron == Init /\ [][NextChron]_vars

SpecCatName == Init /\ [][NextCatName]_vars

SpecCatBlog == Init /\ [][NextCatBlog]_vars

\* Every category id handed out and stored, no blog yet.
InitBlogRef ==
    /\ InitExp /\ NoHttp /\ NoTags /\ NoPage /\ NoErrors /\ NoLater
    /\ categories = [id \in CatIds |-> StoredCategory(id)]
    /\ nextCatId = MaxCategories
    /\ blogs = [id \in BlogIds |-> NoRow]
    /\ nextBlogId = 0
    /\ inflight = EmptyBag
    /\ catLast = CatHandled("none", 0, Undefined, Success(0))

SpecBlogRef == InitBlogRef /\ [][NextBlogRef]_vars

----------------------------------------------------------------------------
(* Experience chronology properties *)

\* Months since year 0 of a valid YYYY-MM string: the chronological order.
MonthIndex(m) ==
    (DigitValue(m[1]) * 1000 + DigitValue(m[2]) * 100 + DigitValue(m[3]) * 10
        + DigitValue(m[4])) * 12
    + DigitValue(m[6]) * 10 + DigitValue(m[7])

StoredRows == {id \in ExpIds : experiences[id] # NoRow}

\* C1: after any sequence of createExperience and updateExperience requests,
\* every stored Experience with isCurrent = true has endMonth = null.
C1_CurrentHasNoEndMonth ==
    \A id \in StoredRows : experiences[id].isCurrent => experiences[id].endMonth = Null

\* C2: after any sequence of createExperience and updateExperience requests,
\* every stored Experience whose endMonth is non-null has endMonth not earlier
\* than its startMonth.
C2_EndNotBeforeStart ==
    \A id \in StoredRows :
        experiences[id].endMonth # Null =>
            MonthIndex(experiences[id].endMonth.s) >= MonthIndex(experiences[id].startMonth)

\* What the request asks for: isCurrent as createExperience reads it.
BodyIsCurrent(body) == body.isCurrent # Undefined /\ ToBoolean(body.isCurrent)

BodyHasEnd(body) == IsString(body.endMonth)

\* The chronology rule of the data model, on the chronological order of months.
ChronologyBroken(body) ==
    \/ BodyIsCurrent(body) /\ BodyHasEnd(body)
    \/ BodyHasEnd(body) /\ MonthIndex(body.endMonth.s) < MonthIndex(body.startMonth.s)

\* C9: for all valid months s and e and every isCurrent, createExperience is
\* answered BAD_REQUEST and persists nothing exactly when (isCurrent and e is
\* non-null) or (e is non-null and chronologically earlier than s); otherwise
\* (including e = s) the check passes and the row is stored.
C9_ChronologyCheck ==
    [][expLast'.op = "create" =>
        IF ChronologyBroken(expLast'.body)
        THEN /\ expLast'.status = 400
             /\ expLast'.code = "BAD_REQUEST"
             /\ experiences' = experiences
        ELSE /\ expLast'.status = 201
             /\ experiences'[expLast'.id].startMonth = expLast'.body.startMonth.s
             /\ experiences'[expLast'.id].isCurrent = BodyIsCurrent(expLast'.body)
             /\ experiences'[expLast'.id].endMonth =
                    (IF BodyHasEnd(expLast'.body) THEN expLast'.body.endMonth ELSE Null)]_vars

\* A create whose end month precedes its start month was rejected.
C9_Witness ==
    /\ expLast.op = "create"
    /\ expLast.status = 400
    /\ BodyHasEnd(expLast.body)
    /\ ~BodyIsCurrent(expLast.body)
    /\ MonthIndex(expLast.body.endMonth.s) < MonthIndex(expLast.body.startMonth.s)

\* The merged state of a partial update: each of the three fields is the
\* value the body supplies when present and the stored value otherwise.
MergedStartMonth(existing, body) ==
    IF body.startMonth # Undefined THEN body.startMonth.s ELSE existing.startMonth

MergedEndMonth(existing, body) ==
    IF body.endMonth # Undefined THEN body.endMonth ELSE existing.endMonth

MergedIsCurrent(existing, body) ==
    IF body.isCurrent # Undefined THEN ToBoolean(body.isCurrent) ELSE existing.isCurrent

MergedChronologyBroken(existing, body) ==
    \/ MergedIsCurrent(existing, body) /\ MergedEndMonth(existing, body) # Null
    \/ /\ MergedEndMonth(existing, body) # Null
       /\ MonthIndex(MergedEndMonth(existing, body).s)
            < MonthIndex(MergedStartMonth(existing, body))

\* A PATCH of a stored experience whose three chronology fields are well formed.
UpdatesStored(last, rows) ==
    /\ last.op = "update"
    /\ rows[last.id] # NoRow
    /\ last.body \in ChronologyBodies

\* C21: whenever the merged state of an updateExperience request (supplied
\* value when present, stored value otherwise) has isCurrent = true with a
\* non-null endMonth, or an endMonth earlier than startMonth, the request is
\* answered BAD_REQUEST and the stored record is unchanged.
C21_MergedChronologyRejected ==
    [][(UpdatesStored(expLast', experiences)
            /\ MergedChronologyBroken(experiences[expLast'.id], expLast'.body))
        => (expLast'.code = "BAD_REQUEST" /\ experiences' = experiences)]_vars

\* C27: a successful PATCH of an experience whose body contains endMonth =
\* null leaves the stored endMonth null, whatever the record's previous
\* endMonth and isCurrent were.
C27_NullEndMonthClears ==
    [][(expLast'.op = "update" /\ expLast'.status = 200 /\ expLast'.body.endMonth = Null)
        => experiences'[expLast'.id].endMonth = Null]_vars

----------------------------------------------------------------------------
(* Category and blog properties *)

\* A step that answers a request: no request was suspended by it.
Answered == BagCardinality(inflight') <= BagCardinality(inflight)

\* C3: whenever a DELETE /api/categories/:id request does not remove a
\* category because it has at least one dependent Blog, the response is 409
\* CONFLICT and the category remains stored, in every interleaving with
\* concurrent blog creations.
C3_BlockedDeleteIsConflict ==
    [][(/\ Answered
        /\ catLast'.op = "deleteCategory"
        /\ categories[catLast'.id] # NoRow
        /\ BlogsOf(catLast'.id) # {})
       => (/\ catLast'.status = 409
           /\ catLast'.code = "CONFLICT"
           /\ categories'[catLast'.id] = categories[catLast'.id])]_vars

StoredCategories == {id \in CatIds : categories[id] # NoRow}

\* The name a request asks to store, once validated.
AskedName(name) == Trim(name.s)

\* The request just answered would have stored a second category with a name
\* that another stored category holds.
WouldDuplicate ==
    /\ Answered
    /\ catLast'.op \in {"createCategory", "updateCategory"}
    /\ IsString(catLast'.name)
    /\ Len(AskedName(catLast'.name)) > 0
    /\ catLast'.op = "updateCategory" => categories[catLast'.id] # NoRow
    /\ \E other \in StoredCategories \ {catLast'.id} :
           categories[other].name = AskedName(catLast'.name)

\* C4: after any interleaving of createCategory and updateCategory requests
\* no two stored categories have the same name, and a request that would
\* store a second category with an existing name is answered 409 CONFLICT and
\* leaves the store unchanged.
C4_UniqueCategoryNames ==
    /\ [](\A c1, c2 \in StoredCategories :
              categories[c1].name = categories[c2].name => c1 = c2)
    /\ [][WouldDuplicate =>
            (/\ catLast'.status = 409
             /\ catLast'.code = "CONFLICT"
             /\ categories' = categories)]_vars

\* Two categories are stored and an update asking for the other one's name
\* was answered 409.
C4_Witness ==
    /\ Cardinality(StoredCategories) = 2
    /\ catLast.op = "updateCategory"
    /\ catLast.status = 409
    /\ \E other \in StoredCategories \ {catLast.id} :
           categories[other].name = AskedName(catLast.name)

----------------------------------------------------------------------------
(* Routing, auth gate, token and login properties *)

GuardedResources == {"projects", "blogs", "categories", "experiences"}

IsWrite(req) ==
    \/ req.resource \in GuardedResources /\ req.method \in {"POST", "PATCH", "DELETE"}
    \/ req.resource = "uploads" /\ req.method = "POST"

IsController(handler) == handler \notin Middleware \cup {"errorHandler", "login"}

Unauthorized(resp) == resp.status = 401 /\ resp.code = "UNAUTHORIZED"

GateAccepted ==
    /\ http.authNext = <<NoError>>
    /\ http.auth # Undefined

\* C5: on every POST, PATCH or DELETE to projects, blogs, categories and
\* experiences and every POST to uploads, a controller runs only after
\* requireAuth ran earlier in the same request and accepted its bearer token;
\* every GET route of the four resources ends in its controller whatever the
\* Authorization header is, without the gate having run.
C5_WritesBehindAuthGate ==
    /\ \A i \in 1..Len(http.ran) :
          IsWrite(http.req) /\ IsController(http.ran[i])
              => /\ \E j \in 1..(i - 1) : http.ran[j] = "requireAuth"
                 /\ GateAccepted
                 /\ http.req.hs.form \in {"bearer", "bearerPadded"}
    /\ (/\ http.phase = "done"
        /\ http.req.method = "GET"
        /\ http.req.resource \in GuardedResources)
          => /\ Len(http.ran) = 1
             /\ IsController(http.ran[1])
             /\ http.authNext = <<>>

C5_Witness ==
    /\ http.phase = "done"
    /\ http.req.resource = "uploads"
    /\ http.ran = <<"requireAuth", "uploadMiddleware", "uploadImages">>
    /\ GateAccepted

\* What the sender put in the Authorization header, read off how it was built.
SentNoBearerToken(hs) ==
    hs.form \in {"missing", "empty", "lowercase", "noSpace", "basic", "bearerOnly", "bearerBlank"}

\* C6: requireAuth calls next exactly once; with a 401 UNAUTHORIZED error and
\* req.auth unset when the header is missing, is not 'Bearer '-prefixed, has an
\* empty token, or the token sent fails verification; otherwise with no error
\* and req.auth set to the userId and email of the verified token.
C6_GateCallsNextOnce ==
    http.authNext # <<>> =>
        LET hs == http.req.hs
            verified == verifyAccessToken(TokenOf(hs), jwtSecret, now)
        IN /\ Len(http.authNext) = 1
           /\ IF SentNoBearerToken(hs) \/ ~verified.ok
              THEN /\ http.authNext[1].kind = "AppError"
                   /\ http.authNext[1].statusCode = 401
                   /\ http.authNext[1].code = "UNAUTHORIZED"
                   /\ http.auth = Undefined
              ELSE /\ http.authNext[1] = NoError
                   /\ http.auth = [userId |-> verified.v.userId, email |-> verified.v.email]

C6_Witness ==
    /\ http.authNext = <<NoError>>
    /\ http.req.hs.form = "bearerPadded"
    /\ http.auth = [userId |-> UserIdU1, email |-> EmailA]

RoundTripPayloads ==
    {[userId |-> UserIdU1, email |-> EmailA], [userId |-> <<>>, email |-> EmailBC],
     [userId |-> <<".", ",">>, email |-> <<>>]}

\* C7: a token made by signAccessToken verifies back to the userId and email
\* it was signed for as long as it is unexpired and the secret is the one it
\* was signed with; a token signed with another secret, an expired token and
\* a token whose subject or email claim is not a string are rejected, and the
\* auth gate answers them with UNAUTHORIZED.
C7_SignVerifyRoundTrip ==
    /\ \A payload \in RoundTripPayloads, k \in Secrets, iat \in 0..now :
          http.phase = "idle" =>
          LET verified == verifyAccessToken(signAccessToken(payload, k, iat).v, jwtSecret, now)
          IN IF k = jwtSecret /\ now < iat + JWT_EXPIRES_IN_DAYS
             THEN verified = Ok(payload)
             ELSE ~verified.ok
    /\ LET hs == http.req.hs
       IN (http.authNext # <<>> /\ hs.form \in {"bearer", "bearerPadded"}
              /\ hs.kind \in {"issued", "minted"})
            => IF hs.kind = "issued" /\ hs.secret = jwtSecret
                    /\ now < hs.iat + JWT_EXPIRES_IN_DAYS
               THEN /\ http.authNext = <<NoError>>
                    /\ http.auth = [userId |-> hs.sub.s, email |-> hs.email.s]
               ELSE /\ http.phase = "done"
                    /\ Unauthorized(http.resp)
                    /\ http.auth = Undefined
                    /\ \A i \in 1..Len(http.ran) : ~IsController(http.ran[i])

C7_Witness ==
    /\ http.authNext = <<NoError>>
    /\ http.req.hs.kind = "issued"
    /\ http.req.hs.iat = 1
    /\ now = JWT_EXPIRES_IN_DAYS
    /\ http.auth = [userId |-> <<>>, email |-> EmailBC]

MissingOrBlank(v) == ~IsString(v) \/ Trim(v.s) = <<>>

UsersWithEmail(v) == {u \in users : u.email = ToLowerCase(Trim(v.s))}

LoginAnswered == http.phase = "done" /\ http.ran[1] = "login"

IssuedFor(u) ==
    /\ http.resp.status = 200
    /\ http.payload.user = [id |-> u.id, email |-> u.email]
    /\ verifyAccessToken(http.payload.token, jwtSecret, now)
          = Ok([userId |-> u.id, email |-> u.email])

WellFormed(body) == ~MissingOrBlank(body.email) /\ ~MissingOrBlank(body.password)

WrongPassword(body) ==
    /\ UsersWithEmail(body.email) # {}
    /\ \A u \in UsersWithEmail(body.email) :
          ~comparePassword(Trim(body.password.s), u.passwordHash)

\* C30: for a well-formed email and password, the status, code and message
\* login returns when the user exists but the password is wrong are those it
\* returns for the same request when no user has that email.
C30_LoginHidesRegistration ==
    (LoginAnswered /\ WellFormed(http.req.body) /\ WrongPassword(http.req.body)) =>
        LET unregistered == users \ UsersWithEmail(http.req.body.email)
            other == login(http.req.body, unregistered, jwtSecret, now)
        IN /\ http.resp = other.resp
           /\ http.payload = other.payload
           /\ Unauthorized(http.resp)

\* The seeded user's e-mail was sent with another password.
C30_Witness ==
    /\ LoginAnswered
    /\ http.req.body.email = JsStr(<<"A", " ">>)
    /\ http.req.body.password = JsStr(<<"d">>)
    /\ WrongPassword(http.req.body)
    /\ http.resp.status = 401

----------------------------------------------------------------------------
(* Tag list properties *)

CasePairs == {<<"a", "A">>, <<"b", "B">>, <<"d", "D">>}

SameIgnoringCase(x, y) ==
    /\ Len(x) = Len(y)
    /\ \A i \in 1..Len(x) :
          x[i] = y[i] \/ <<x[i], y[i]>> \in CasePairs \/ <<y[i], x[i]>> \in CasePairs

EntryLimit(validator) == IF validator = "validateHighlights" THEN 200 ELSE 40

AllEntriesValid(value, limit) ==
    /\ value.t = "array"
    /\ \A i \in 1..Len(value.items) :
          /\ IsString(value.items[i])
          /\ Len(Trim(value.items[i].s)) \in 1..limit

\* C10: for a list of valid entries, each of the three validators returns the
\* trimmed entries without those that equal an earlier entry ignoring case,
\* in their original order and first-seen spelling, and no two returned
\* entries are equal ignoring case.
C10_DedupeKeepsFirstSeen ==
    (tagResult.validator # "none"
        /\ AllEntriesValid(tagValue, EntryLimit(tagResult.validator)))
      => LET items == tagValue.items
             trimmed == [i \in 1..Len(items) |-> Trim(items[i].s)]
             kept == {i \in 1..Len(items) :
                        \A j \in 1..(i - 1) : ~SameIgnoringCase(trimmed[j], trimmed[i])}
             nth(k) == CHOOSE i \in kept : Cardinality({j \in kept : j < i}) = k - 1
         IN /\ tagResult.out.ok
            /\ Len(tagResult.out.v) = Cardinality(kept)
            /\ \A k \in 1..Cardinality(kept) : tagResult.out.v[k] = trimmed[nth(k)]
            /\ \A a, b \in 1..Len(tagResult.out.v) :
                  a # b => ~SameIgnoringCase(tagResult.out.v[a], tagResult.out.v[b])

C10_Witness ==
    /\ tagResult.validator = "validateTechTags"
    /\ tagValue = JsArray(<<JsStr(<<"A">>), JsStr(<<"b">>), JsStr(<<" ", "a", " ">>)>>)
    /\ tagResult.out = Ok(<<(<<"A">>), <<"b">>>>)

----------------------------------------------------------------------------
(* Pagination properties *)

\* C11: parsePagination returns page 1 for an omitted page and limit 10 for an
\* omitted limit, throws BAD_REQUEST when page is not a whole number >= 1 or
\* limit is not a whole number from 1 to 100, and otherwise returns
\* skip = (page - 1) * limit, a non-negative multiple of limit.
C11_PaginationSkip ==
    pageResult.called =>
        LET pageOk == pageQuery.page.denotes \in {"omitted", "1..100", "above 100"}
            limitOk == pageQuery.limit.denotes \in {"omitted", "1..100"}
            out == pageResult.out
        IN IF pageOk /\ limitOk
           THEN /\ out.ok
                /\ pageQuery.page.denotes = "omitted" => out.v.page = BitsOf(1)
                /\ pageQuery.limit.denotes = "omitted" => out.v.limit = 10
                /\ out.v.skip = MulAdd(Decrement(out.v.page), out.v.limit, 0)
                /\ ModSmall(out.v.skip, out.v.limit) = 0
           ELSE /\ ~out.ok
                /\ out.err.statusCode = 400
                /\ out.err.code = "BAD_REQUEST"

----------------------------------------------------------------------------
(* Terminal error handler properties *)

Handled(i) == responded[i] # NotResponded

Unrecognized(error) == error.kind \notin {"TooLarge", "AppError", "Prisma"}

\* C14: a known ORM error is answered 409 CONFLICT for P2002, 400 BAD_REQUEST
\* for P2003, 404 NOT_FOUND for P2025 and 500 INTERNAL_ERROR for any other code.
C14_OrmErrorMapping ==
    \A i \in {1, 2} :
        (Handled(i) /\ thrown[i].kind = "Prisma") =>
            LET answer == <<responded[i].status, responded[i].code>>
            IN CASE thrown[i].code = "P2002" -> answer = <<409, "CONFLICT">>
                 [] thrown[i].code = "P2003" -> answer = <<400, "BAD_REQUEST">>
                 [] thrown[i].code = "P2025" -> answer = <<404, "NOT_FOUND">>
                 [] OTHER -> answer = <<500, "INTERNAL_ERROR">>

C14_Witness ==
    /\ Handled(1) /\ thrown[1].kind = "Prisma" /\ thrown[1].code = "P2003"
    /\ Handled(2) /\ thrown[2].kind = "Prisma" /\ thrown[2].code = "P2034"

\* C15: an error that is no oversized body, AppError or known ORM error is
\* answered 500 INTERNAL_ERROR 'Internal server error'; in production any two
\* such errors get the same response, and outside production details is the
\* error's message.
C15_UnrecognizedErrors ==
    /\ \A i \in {1, 2} :
          (Handled(i) /\ Unrecognized(thrown[i])) =>
              /\ responded[i].status = 500
              /\ responded[i].code = "INTERNAL_ERROR"
              /\ responded[i].message = <<"Internal server error">>
              /\ (nodeEnv # "production" /\ thrown[i].kind = "Error")
                    => responded[i].details = JsStr(thrown[i].message)
    /\ (/\ nodeEnv = "production"
        /\ Handled(1) /\ Unrecognized(thrown[1])
        /\ Handled(2) /\ Unrecognized(thrown[2]))
          => responded[1] = responded[2]

C15_Witness ==
    /\ nodeEnv = "production"
    /\ Handled(1) /\ thrown[1].kind = "Error"
    /\ Handled(2) /\ thrown[2].kind = "Error"
    /\ thrown[1].message # thrown[2].message

\* Two errors that differ at most in the text or metadata of the underlying
\* data-store or object-storage error.
SameUpToStorageText(a, b) ==
    /\ a.kind = b.kind
    /\ a.kind = "Prisma" => a.code = b.code
    /\ a.kind = "AppError" =>
          /\ a.statusCode = b.statusCode /\ a.code = b.code /\ a.message = b.message
          /\ (DetailsOf(a) = Undefined) = (DetailsOf(b) = Undefined)

\* C16: in production two failing requests that differ only in the underlying
\* storage error's message or metadata get identical response bodies.
C16_NoStorageTextInProduction ==
    (/\ nodeEnv = "production"
     /\ Handled(1)
     /\ Handled(2)
     /\ SameUpToStorageText(thrown[1], thrown[2]))
       => responded[1] = responded[2]

TooLargeResponse ==
    [status |-> 400, code |-> "BAD_REQUEST",
     message |-> <<"Upload payload too large. Max 10 images, 5MB each.">>,
     details |-> Undefined]

OrmMessages ==
    {<<"Resource already exists">>, <<"Invalid relation reference">>,
     <<"Resource not found">>, <<"Database request failed">>}

\* C25: the terminal handler answers an error by the first class that matches,
\* in the order oversized body, AppError, known ORM error, anything else: an
\* error marked as an oversized body gets 400 BAD_REQUEST even when it is also
\* an AppError, and any other AppError gets exactly its own statusCode, code,
\* message and details.
C25_FirstMatchingClass ==
    \A i \in {1, 2} :
        Handled(i) =>
            IF TypeIs(thrown[i], "entity.too.large") THEN responded[i] = TooLargeResponse
            ELSE IF thrown[i].kind = "AppError"
            THEN responded[i] = [status |-> thrown[i].statusCode, code |-> thrown[i].code,
                                 message |-> thrown[i].message,
                                 details |-> DetailsOf(thrown[i])]
            ELSE IF thrown[i].kind = "Prisma"
            THEN /\ responded[i].message \in OrmMessages
                 /\ responded[i].details = MetaOf(thrown[i])
            ELSE /\ responded[i].status = 500
                 /\ responded[i].message = <<"Internal server error">>

\* An AppError marked as an oversized body was answered 400, and an AppError
\* with another type and one with details were passed through.
C25_Witness ==
    /\ Handled(1) /\ thrown[1] = TypedAppError("entity.too.large")
    /\ responded[1].status = 400
    /\ Handled(2) /\ thrown[2] = TypedAppError("entity.parse.failed")
    /\ responded[2].status = 413

----------------------------------------------------------------------------
(* Upload properties *)

UploadAnswered == uploadRun.pc = "done"

UploadStatus == uploadRun.response.status

UploadErrorCode ==
    IF "error" \in DOMAIN uploadRun.response.body THEN uploadRun.response.body.error.code
    ELSE "none"

FolderNames == {JsStr(name) : name \in ALLOWED_FOLDERS}

\* C12 as stated: a request with zero files, more than 10 files, or a folder
\* other than 'projects' or 'blogs' is answered 400 BAD_REQUEST and no storage
\* upload call is made for it.
C12_BadUploadAsStated ==
    (\/ Len(uploadReq.files) = 0
     \/ Len(uploadReq.files) > 10
     \/ uploadReq.body.folder \notin FolderNames)
       => /\ storageCalls = <<>>
          /\ UploadAnswered => (UploadStatus = 400 /\ UploadErrorCode = "BAD_REQUEST")

\* The folder after the trimming that validateRequiredString does names one of
\* the two folders.
NamesFolder(value) == IsString(value) /\ Trim(value.s) \in ALLOWED_FOLDERS

\* C12: a request with zero files, more than 10 files, or a folder that is
\* missing, no string, or after trimming neither 'projects' nor 'blogs' is
\* answered 400 BAD_REQUEST and no storage upload call is made for it.
C12_BadUploadRejected ==
    (\/ Len(uploadReq.files) = 0
     \/ Len(uploadReq.files) > 10
     \/ ~NamesFolder(uploadReq.body.folder))
       => /\ storageCalls = <<>>
          /\ UploadAnswered => (UploadStatus = 400 /\ UploadErrorCode = "BAD_REQUEST")

C12_Witness ==
    /\ UploadAnswered
    /\ Len(uploadReq.files) = 11
    /\ \A i \in 1..11 : uploadReq.files[i] = GoodFile
    /\ uploadReq.body.folder \in FolderNames
    /\ UploadStatus = 400 /\ UploadErrorCode = "BAD_REQUEST"
    /\ storageCalls = <<>>

\* The request was answered with the error uploadImages throws when the upload
\* call of file n reports an error.
StorageFailedOn(n) ==
    /\ UploadAnswered
    /\ uploadRun.next = n
    /\ "error" \in DOMAIN uploadRun.response.body
    /\ uploadRun.response.body.error.message = <<"Failed to upload image">>

\* C13: upload calls are made in list order, the call for a file only after
\* the one before it was stored; when storage fails on file N, files 1..N-1 are
\* the stored ones, no later file was tried, and the answer is 500
\* INTERNAL_ERROR without links.
C13_SequentialUploads ==
    /\ \A i \in 1..Len(storageCalls) : storageCalls[i] = i
    /\ \A i \in 1..Len(bucket) : bucket[i] = i
    /\ Len(bucket) <= Len(storageCalls)
    /\ Len(storageCalls) <= Len(bucket) + 1
    /\ \A n \in 1..MaxSent :
          StorageFailedOn(n) =>
              /\ bucket = [i \in 1..(n - 1) |-> i]
              /\ storageCalls = [i \in 1..n |-> i]
              /\ UploadStatus = 500 /\ UploadErrorCode = "INTERNAL_ERROR"
              /\ "links" \notin DOMAIN uploadRun.response.body

C13_Witness ==
    /\ StorageFailedOn(3)
    /\ Len(uploadRun.files) = 5
    /\ bucket = <<1, 2>>

\* C28: an upload request that is answered BAD_REQUEST, including for an empty
\* or over-5MB file at any position of the file list, has caused no storage
\* upload call.
C28_RejectedUploadStoresNothing ==
    (UploadAnswered /\ UploadStatus = 400 /\ UploadErrorCode = "BAD_REQUEST")
       => storageCalls = <<>>

----------------------------------------------------------------------------
(* Properties of get, update and delete by id *)

CrudAnswered == crudRun.pc = "done"

WriteIssued == \E i \in 1..Len(crudRun.statements) : crudRun.statements[i] \in {"update", "delete"}

DefinesRecognizedField ==
    requireAtLeastOneField(crudReq.body, RecognizedFields(crudReq.resource)).ok

\* The values of an update body pass the validators that run before the row
\* is looked up.
ValidValues ==
    CASE crudReq.resource = "project" -> updateProjectData(crudReq.body).ok
      [] crudReq.resource = "blog" -> updateBlogData(crudReq.body).ok
      [] crudReq.resource = "category" -> updateCategoryData(crudReq.body).ok
      [] crudReq.resource = "experience" -> TRUE

\* C17: for project, blog, category and experience, a get, a delete, or an
\* update with a recognized field and valid values, on an id that is not in the
\* store, is answered 404 NOT_FOUND and issues no update or delete statement.
C17_MissingIdIs404 ==
    (/\ crudRun.idAbsent
     /\ crudRun.pc # "idle"
     /\ crudReq.op = "update" => (DefinesRecognizedField /\ ValidValues))
       => /\ ~WriteIssued
          /\ CrudAnswered => crudRun.response = [status |-> 404, code |-> "NOT_FOUND"]

C17_Witness ==
    /\ CrudAnswered
    /\ crudRun.idAbsent
    /\ crudReq.resource = "blog" /\ crudReq.op = "update"
    /\ DefinesRecognizedField /\ ValidValues
    /\ crudRun.response = [status |-> 404, code |-> "NOT_FOUND"]
    /\ crudRun.statements = <<"findUnique">>

\* C18: for all four resources a PATCH whose body defines none of the
\* recognized fields is answered 400 BAD_REQUEST, and the handler issues no
\* statement to the data store.
C18_EmptyPatchIs400 ==
    (crudRun.pc # "idle" /\ crudReq.op = "update" /\ ~DefinesRecognizedField)
       => /\ crudRun.statements = <<>>
          /\ CrudAnswered => crudRun.response = [status |-> 400, code |-> "BAD_REQUEST"]

C18_Witness ==
    /\ CrudAnswered
    /\ crudReq.op = "update" /\ crudReq.resource = "experience"
    /\ crudReq.body = UnrecognizedOnly
    /\ ~crudRun.idAbsent
    /\ crudRun.response = [status |-> 400, code |-> "BAD_REQUEST"]
    /\ crudRun.statements = <<>>

\* The step in which an update request is answered 200.
PatchSucceeds ==
    /\ crudReq.op = "update"
    /\ crudRun.pc # "done"
    /\ crudRun'.pc = "done"
    /\ crudRun'.response.status = 200

\* The fields of the row that the body of the request does not carry.
AbsentFields(row) == {f \in DOMAIN row : Field(crudReq.body, f) = Undefined}

----------------------------------------------------------------------------
(* Blog category reference properties *)

CategoryStored(k) == k \in CatIds /\ categories[k] # NoRow

\* The value is a category id, and no stored category has it.
NamesAbsentCategory(value) ==
    /\ IsString(value)
    /\ Len(Trim(value.s)) > 0
    /\ ~CategoryStored(IdKey(Trim(value.s)))

\* A step in which createBlog or updateBlog, resumed after an await, reaches a
\* statement that reads or references a category that is not stored.
ResumedOnAbsentCategory ==
    \E req \in BagToSet(inflight) :
        /\ CopiesIn(req, inflight') < CopiesIn(req, inflight)
        /\ req.op \in {"createBlog", "updateBlogEnsure", "updateBlog"}
        /\ req.categoryId # 0
        /\ ~CategoryStored(req.categoryId)

\* A step in which createBlog or updateBlog answers without having been
\* suspended, for a body that names a category that is not stored.
AnsweredAtOnceOnAbsentCategory(ops) ==
    /\ inflight' = inflight
    /\ catLast'.op \in ops
    /\ NamesAbsentCategory(catLast'.name)

BlogRequestRejected ==
    /\ catLast'.op \in {"createBlog", "updateBlog"}
    /\ catLast'.status = 400
    /\ catLast'.code = "BAD_REQUEST"
    /\ blogs' = blogs

BlogsReferToStoredCategories ==
    \A b \in BlogIds : blogs[b] # NoRow => CategoryStored(blogs[b].categoryId)

\* C19 as stated: in every interleaving of createBlog, updateBlog and
\* deleteCategory every stored blog refers to a stored category, and a create
\* or update naming a nonexistent category id is answered 400 BAD_REQUEST and
\* writes no blog.
C19_BlogCategoryAsStated ==
    /\ []BlogsReferToStoredCategories
    /\ [][(\/ ResumedOnAbsentCategory /\ BagCardinality(inflight') < BagCardinality(inflight)
           \/ AnsweredAtOnceOnAbsentCategory({"createBlog", "updateBlog"}))
          => BlogRequestRejected]_vars

\* C19: in every interleaving of createBlog, updateBlog and deleteCategory
\* every stored blog refers to a stored category, and a create, or an update
\* of a stored blog, naming a nonexistent category id is answered 400
\* BAD_REQUEST and writes no blog.
C19_BlogCategoryReference ==
    /\ []BlogsReferToStoredCategories
    /\ [][ResumedOnAbsentCategory
          => (BagCardinality(inflight') < BagCardinality(inflight) /\ BlogRequestRejected)]_vars
    /\ [][(\/ AnsweredAtOnceOnAbsentCategory({"createBlog"})
           \/ (AnsweredAtOnceOnAbsentCategory({"updateBlog"}) /\ blogs[catLast'.id] # NoRow))
          => BlogRequestRejected]_vars

\* An update of a stored blog that named a category no longer stored was
\* answered 400, and the blog still refers to a stored category.
C19_Witness ==
    /\ catLast.op = "updateBlog"
    /\ catLast.status = 400
    /\ catLast.name = JsStr(IdString(2))
    /\ nextCatId = 2
    /\ ~CategoryStored(2)
    /\ blogs[catLast.id] # NoRow
    /\ blogs[catLast.id].categoryId = 1

----------------------------------------------------------------------------
(* List properties *)

ListAnswered == listRun.pc = "done"

\* C23: in any interleaving of a project or blog list request with concurrent
\* creates and deletes, the total and the data of a list response are computed
\* from the same store state: data is the slice [skip, skip + limit) of the
\* ordered matching set whose size is the reported total, so data has at most
\* limit entries and at most total - skip entries.
C23_TotalAndDataAgree ==
    (ListAnswered /\ listRun.response.status = 200) =>
        LET arguments == listArguments(listReq.resource, listReq.query).v
            matching == Matching(listRun.counted, arguments.where)
        IN /\ listRun.total = Cardinality(matching)
           /\ listRun.data = Page(Ordered(listReq.resource, matching),
                                  arguments.skip, arguments.limit)
           /\ Len(listRun.data) <= arguments.limit
           /\ Len(listRun.data) <= (IF listRun.total > arguments.skip
                                    THEN listRun.total - arguments.skip ELSE 0)

----------------------------------------------------------------------------
(* Rich text properties *)

\* Rich text that holds nothing the allow-list excludes.
Sanitized(tokens) ==
    \A i \in 1..Len(tokens) :
        \/ tokens[i].k = "text"
        \/ /\ tokens[i].name \in ALLOWED_TAGS
           /\ \A at \in tokens[i].attrs :
                 /\ tokens[i].name = "a"
                 /\ at.name \in {"href", "target", "rel"}
                 /\ at.name = "href" => ~naughtyHref(at.value)
                 /\ at.name = "rel" => at.value = RelNoopener

Validated(value) == IsString(value) /\ value.length <= HTML_MAX_LENGTH

\* C24: after any sequence of create and update requests, every stored
\* rich-text field (Project description, overviewHtml, challengeHtml,
\* solutionHtml; Experience summaryHtml) holds the output of the sanitizer
\* applied to the validated input it was written from, so no unsanitized rich
\* text is stored; a read sends the stored row as it is.
C24_StoredRichTextIsSanitized ==
    /\ \A resource \in RichResources :
          richStore[resource] # NoRow =>
             \A f \in RichFields(resource) :
                /\ Validated(richInput[resource][f])
                /\ richStore[resource][f] = sanitizeRichHtml(richInput[resource][f])
                /\ Sanitized(richStore[resource][f])
    /\ (richLast.op = "get" /\ richLast.status = 200)
          => richLast.sent = richStore[richLast.resource]

\* A project was stored and then given an overview whose link had a data:
\* URL; the stored overview has the link without its href.
C24_Witness ==
    /\ richLast.op = "update" /\ richLast.resource = "project" /\ richLast.status = 200
    /\ richInput["project"].overviewHtml = DataLinkHtml
    /\ richInput["project"].description = ScriptHtml
    /\ richStore["project"].overviewHtml # DataLinkHtml.tokens
    /\ richStore["project"].description = <<TextRun("a"), TextRun("b")>>

----------------------------------------------------------------------------
(* Error propagation properties *)

CallOver == call.promise \in {"fulfilled", "handled"}

\* C26: an error raised inside a controller, thrown by a validator or produced
\* by a rejected data-store or storage call, is forwarded exactly once to the
\* terminal handler, which writes the only response of the request; a
\* controller that wrote a success response forwards no error.
C26_ErrorsForwardedOnce ==
    /\ Len(call.raised) <= 1
    /\ Len(call.controllerWrites) <= 1
    /\ (CallOver /\ call.raised # <<>>) =>
          /\ call.nextCalls = call.raised
          /\ call.handlerWrites = <<errorHandler(call.raised[1])>>
          /\ call.controllerWrites = <<>>
    /\ call.controllerWrites # <<>> =>
          /\ call.raised = <<>>
          /\ call.nextCalls = <<>>
          /\ call.handlerWrites = <<>>
    /\ CallOver => Len(call.controllerWrites) + Len(call.handlerWrites) = 1

\* updateBlog's last data-store call was rejected after two that resolved,
\* and the error reached the terminal handler.
C26_Witness ==
    /\ call.controller = "updateBlog"
    /\ call.promise = "handled"
    /\ call.pc = 6
    /\ call.nextCalls = <<PrismaError("P2002")>>
    /\ call.handlerWrites = <<errorHandler(PrismaError("P2002"))>>

----------------------------------------------------------------------------
(* Concurrent delete properties *)

DeletersWith(status) ==
    {i \in DOMAIN deleters.runs : deleters.runs[i].response.status = status}

AllDeletersDone == \A i \in DOMAIN deleters.runs : deleters.runs[i].pc = "done"

\* C29: when several DELETE requests for the same stored project, blog or
\* experience run concurrently, in every interleaving exactly one is answered
\* 204 and each of the others 404 NOT_FOUND; none is answered 500.
C29_OneDeleteWins ==
    /\ Cardinality(DeletersWith(204)) <= 1
    /\ DeletersWith(500) = {}
    /\ \A i \in DOMAIN deleters.runs :
          deleters.runs[i].pc = "done" =>
             \/ deleters.runs[i].response = [status |-> 204, code |-> "OK"]
             \/ deleters.runs[i].response = [status |-> 404, code |-> "NOT_FOUND"]
    /\ AllDeletersDone => Cardinality(DeletersWith(204)) = 1

\* Three deletes of a blog all found the row; one deleted it and the delete
\* statements of the other two found it gone.
C29_Witness ==
    /\ deleters.resource = "blog"
    /\ Cardinality(DOMAIN deleters.runs) = 3
    /\ AllDeletersDone
    /\ \A i \in DOMAIN deleters.runs : deleters.runs[i].found # NoRow
    /\ Cardinality(DeletersWith(404)) = 2
    /\ blogs[1] = NoRow

----------------------------------------------------------------------------
(* Configuration properties *)

ConfigurationComplete ==
    /\ jwtSecret \notin {NoSecret, PlaceholderSecret}
    /\ storageEnv = [url |-> "set", key |-> "set"]

\* C20: every check of the configuration for a missing or placeholder value is
\* made during start-up, and no request is served by a process whose
\* configuration is missing or a placeholder.
C20_ConfigurationCheckedAtStartup ==
    /\ \A c \in proc.checks : c.during = "start-up"
    /\ proc.served > 0 => ConfigurationComplete

====
